---- MODULE Spec2Model ----
(***************************************************************************)
(* Model of wagtail_unveil: per-type admin URL collectors, the route       *)
(* resolvers they use, the report views that wrap their rows and the       *)
(* route table of the report viewsets.                                     *)
(*                                                                         *)
(* The plugin keeps no state between requests.  The state of the model is  *)
(* the last operation that ran, the environment it ran in (route registry  *)
(* of the host, rows returned by the host's queries, host settings) and    *)
(* its outcome: a returned value or the exception that left it.            *)
(*                                                                         *)
(* Strings built by f-strings are sequences of tokens; f"{a}{b}" is a \o b.*)
(* A resolved path is <<route name>> \o args, never empty, as Django's     *)
(* reverse() always returns a path that starts with "/".                   *)
(***************************************************************************)
EXTENDS Integers, Sequences, FiniteSets, TLC

VARIABLES op, env, out

vars == <<op, env, out>>

(***************************************************************************)
(* Bounds of the explored environments.                                    *)
(***************************************************************************)
MaxRows == 3
MaxCap == 3
MaxBroken == 2
MaxSites == 2

\* The renders of one worker process that are followed.
MaxRenders == 2

\* The calls made on one finder that are followed.
MaxLookups == 3

\* The identifiers listed in WAGTAIL_UNVEIL_GENERIC_MODELS.
MaxIdentifiers == 3

(***************************************************************************)
(* Python values and control flow.                                         *)
(***************************************************************************)
Ret(v) == [exc |-> "none", val |-> v]

Raise(e) == [exc |-> e, val |-> <<>>]

Returned(r) == r.exc = "none"

\* An Optional[str]: None, or a string as its sequence of tokens.
None == [none |-> TRUE, s |-> <<>>]

Str(s) == [none |-> FALSE, s |-> s]

\* `if url:` is false for None and for the empty string
Truthy(v) == ~v.none /\ v.s # <<>>

Min(a, b) == IF a <= b THEN a ELSE b

\* Faulty variant of Take: the slice keeps one element too many.
TakeOffByOne(seq, n) == SubSeq(seq, 1, Min(n + 1, Len(seq)))

\* seq[:n] for n >= 0
Take(seq, n) == SubSeq(seq, 1, Min(n, Len(seq)))

StartsWith(s, prefix) ==
    /\ Len(prefix) <= Len(s)
    /\ SubSeq(s, 1, Len(prefix)) = prefix

(***************************************************************************)
(* The host's route registry.  reg maps a route name to "ok" or to the     *)
(* exception django.urls.reverse raises for it: NoReverseMatch for an      *)
(* unknown name or an argument mismatch, ImproperlyConfigured or          *)
(* ImportError for a broken URL configuration.                             *)
(***************************************************************************)
ResolutionFailures == {"NoReverseMatch", "ImproperlyConfigured", "ImportError"}

RouteStatus == {"ok"} \cup ResolutionFailures

\* The registries in which at most MaxBroken of `names` fail, each with one
\* of `failures`.
RegistriesFailing(names, failures) ==
    LET Broken == {B \in SUBSET names : Cardinality(B) <= MaxBroken}
        Faults == UNION {[B -> failures] : B \in Broken}
    IN {[n \in names |-> IF n \in DOMAIN f THEN f[n] ELSE "ok"] : f \in Faults}

Registries(names) == RegistriesFailing(names, ResolutionFailures)

RoutedRegistries(names) == RegistriesFailing(names, {"NoReverseMatch"})

reverse(reg, name, args) ==
    IF reg[name] = "ok" THEN Ret(Str(<<name>> \o args)) ELSE Raise(reg[name])

Caps == 0..MaxCap

DEFAULT_BASE_URL == <<"http://localhost:8000">>

BaseUrls == {DEFAULT_BASE_URL, <<"https://cms.example.com">>}

\* Primary keys start at 1; a table is the rows of one model in the order
\* the query returns them.
Tables == {[i \in 1..n |-> [id |-> ToString(i)]] : n \in 0..MaxRows}

\* No request is being served.
Idle == op = "idle"

\* One request: the operation `name` runs in environment e and ends with r.
Serve(name, e, r) ==
    /\ op' = name
    /\ env' = e
    /\ out' = r

(***************************************************************************)
(* Loop over instances inside try/except: step(urls, inst) is the body of  *)
(* one iteration and returns Ret(urls') or Raise(e).  The list is mutated  *)
(* in place, so rows appended before an exception are kept by a handler.   *)
(***************************************************************************)
RECURSIVE ForEach(_, _, _)
ForEach(step(_, _), urls, insts) ==
    IF insts = <<>> THEN Ret(urls)
    ELSE LET r == step(urls, Head(insts))
         IN IF Returned(r) THEN ForEach(step, r.val, Tail(insts)) ELSE r

\* Append (model_name, url_type, f"{base_url}{url}") when `if url:` holds.
AppendIf(urls, model_name, url_type, base_url, url) ==
    IF Truthy(url) THEN Append(urls, <<model_name, url_type, base_url \o url.s>>)
    ELSE urls

\* Faulty variant of CatchNoReverseMatch: the try/except is missing.
PropagateNoReverseMatch(r) == r

\* try: return reverse(...)  except NoReverseMatch: return None
CatchNoReverseMatch(r) ==
    IF r.exc = "NoReverseMatch" THEN Ret(None) ELSE r

(***************************************************************************)
(* viewsets/redirect_report.py                                             *)
(***************************************************************************)
RedirectRoutes ==
    {"wagtailredirects:index", "wagtailredirects:add",
     "wagtailredirects:edit", "wagtailredirects:delete"}

vs_get_redirect_index_url(reg) ==
    CatchNoReverseMatch(reverse(reg, "wagtailredirects:index", <<>>))

vs_get_redirect_add_url(reg) ==
    CatchNoReverseMatch(reverse(reg, "wagtailredirects:add", <<>>))

vs_get_redirect_edit_url(reg, redirect_id) ==
    CatchNoReverseMatch(reverse(reg, "wagtailredirects:edit", <<redirect_id>>))

vs_get_redirect_delete_url(reg, redirect_id) ==
    CatchNoReverseMatch(reverse(reg, "wagtailredirects:delete", <<redirect_id>>))

\* Body shared by the free-function collectors that emit edit then delete.
EditDeleteStep(edit, delete, model_name, base_url, urls) ==
    IF ~Returned(edit) THEN [exc |-> edit.exc, val |-> urls]
    ELSE LET u1 == AppendIf(urls, model_name, "edit", base_url, edit.val)
         IN IF ~Returned(delete) THEN [exc |-> delete.exc, val |-> u1]
            ELSE Ret(AppendIf(u1, model_name, "delete", base_url, delete.val))

\* except X.DoesNotExist: pass / except (AttributeError, ValueError, TypeError): pass
LoopHandled == {"DoesNotExist", "AttributeError", "ValueError", "TypeError"}

vs_get_redirect_urls(reg, rows, base_url, max_instances) ==
    LET index_url == vs_get_redirect_index_url(reg)
        add_url == vs_get_redirect_add_url(reg)
        step(urls, redirect) ==
            EditDeleteStep(vs_get_redirect_edit_url(reg, redirect.id),
                           vs_get_redirect_delete_url(reg, redirect.id),
                           <<"wagtail.Redirect", redirect.id>>, base_url, urls)
    IN IF ~Returned(index_url) THEN Raise(index_url.exc)
       ELSE IF ~Returned(add_url) THEN Raise(add_url.exc)
       ELSE LET u0 == AppendIf(<<>>, <<"wagtail.Redirect">>, "index", base_url, index_url.val)
                u1 == AppendIf(u0, <<"wagtail.Redirect">>, "add", base_url, add_url.val)
                loop == ForEach(step, u1, Take(rows, max_instances))
            IN IF Returned(loop) \/ loop.exc \in LoopHandled THEN Ret(loop.val)
               ELSE Raise(loop.exc)

CallViewsetRedirectUrls ==
    /\ Idle
    /\ \E reg \in Registries(RedirectRoutes), rows \in Tables,
       base_url \in BaseUrls, max_instances \in Caps :
        Serve("viewsets.redirect_report.get_redirect_urls",
              [reg |-> reg, rows |-> rows, base_url |-> base_url,
               max_instances |-> max_instances],
              vs_get_redirect_urls(reg, rows, base_url, max_instances))

(***************************************************************************)
(* helpers/base.py: UnveilURLFinder.  A finder method returns its result   *)
(* together with the finder's _url_cache after the call.                   *)
(***************************************************************************)
FRet(v, cache) == [exc |-> "none", val |-> v, cache |-> cache]

FRaise(e, cache) == [exc |-> e, val |-> None, cache |-> cache]

EmptyCache == <<>>

CachePut(cache, key, v) == (key :> v) @@ cache

\* f"...{a}...{b}": the parts, formatted, joined into one string.
RECURSIVE fstring(_)
fstring(parts) == IF parts = <<>> THEN "" ELSE Head(parts) \o fstring(Tail(parts))

\* except (AttributeError, ImportError, TypeError, ValueError)
BaseCaught == {"AttributeError", "ImportError", "TypeError", "ValueError"}

base_get_cached_url(cache, reg, cache_key, name, args) ==
    IF cache_key \in DOMAIN cache THEN FRet(cache[cache_key], cache)
    ELSE LET r == reverse(reg, name, args)
         IN IF Returned(r) THEN FRet(r.val, CachePut(cache, cache_key, r.val))
            ELSE IF r.exc \in BaseCaught
                 THEN FRet(None, CachePut(cache, cache_key, None))
            ELSE FRaise(r.exc, cache)

base_safe_url_generation(reg, name, args) ==
    LET r == reverse(reg, name, args)
    IN IF Returned(r) THEN r
       ELSE IF r.exc \in BaseCaught THEN Ret(None)
       ELSE Raise(r.exc)

(***************************************************************************)
(* helpers/collection.py: CollectionAdminURLFinder and get_collection_urls *)
(***************************************************************************)
CollectionRoutes ==
    {"wagtailadmin_collections:index", "wagtailadmin_collections:add",
     "wagtailadmin_collections:edit", "wagtailadmin_collections:delete"}

h_get_collection_index_url(cache, reg) ==
    base_get_cached_url(cache, reg, <<"collection_index">>,
                        "wagtailadmin_collections:index", <<>>)

h_get_collection_add_url(cache, reg) ==
    base_get_cached_url(cache, reg, <<"collection_add">>,
                        "wagtailadmin_collections:add", <<>>)

h_get_collection_edit_url(cache, reg, collection_id) ==
    base_get_cached_url(cache, reg, <<"collection_edit_", collection_id>>,
                        "wagtailadmin_collections:edit", <<collection_id>>)

h_get_collection_delete_url(cache, reg, collection_id) ==
    base_get_cached_url(cache, reg, <<"collection_delete_", collection_id>>,
                        "wagtailadmin_collections:delete", <<collection_id>>)

\* The dict {url_type: url} as the sequence of its items in insertion order.
DictPutIf(items, url_type, url) ==
    IF Truthy(url) THEN Append(items, <<url_type, url>>) ELSE items

h_get_all_collection_urls(cache, reg, collection_id) ==
    LET e == h_get_collection_edit_url(cache, reg, collection_id)
    IN IF ~Returned(e) THEN e
       ELSE LET d == h_get_collection_delete_url(e.cache, reg, collection_id)
            IN IF ~Returned(d) THEN d
               ELSE FRet(DictPutIf(DictPutIf(<<>>, "edit", e.val), "delete", d.val),
                         d.cache)

\* for url_type, url in all_urls.items(): urls.append((name, url_type, base+url))
RECURSIVE AppendItems(_, _, _, _)
AppendItems(urls, model_name, base_url, items) ==
    IF items = <<>> THEN urls
    ELSE AppendItems(
            Append(urls, <<model_name, Head(items)[1], base_url \o Head(items)[2].s>>),
            model_name, base_url, Tail(items))

\* Loop of a class-based collector: the accumulator is the url list and the
\* finder's cache.
RECURSIVE ForEachF(_, _, _, _)
ForEachF(step(_, _, _), urls, cache, insts) ==
    IF insts = <<>> THEN [exc |-> "none", val |-> urls, cache |-> cache]
    ELSE LET r == step(urls, cache, Head(insts))
         IN IF Returned(r) THEN ForEachF(step, r.val, r.cache, Tail(insts)) ELSE r

h_get_collection_urls(reg, rows, base_url, max_instances) ==
    LET index_url == h_get_collection_index_url(EmptyCache, reg)
        add_url == h_get_collection_add_url(index_url.cache, reg)
        step(urls, cache, collection) ==
            LET all_urls == h_get_all_collection_urls(cache, reg, collection.id)
            IN IF ~Returned(all_urls)
               THEN [exc |-> all_urls.exc, val |-> urls, cache |-> cache]
               ELSE [exc |-> "none",
                     val |-> AppendItems(urls, <<"wagtail.Collection", collection.id>>,
                                         base_url, all_urls.val),
                     cache |-> all_urls.cache]
    IN IF ~Returned(index_url) THEN Raise(index_url.exc)
       ELSE IF ~Returned(add_url) THEN Raise(add_url.exc)
       ELSE LET u0 == AppendIf(<<>>, <<"wagtail.Collection">>, "index", base_url, index_url.val)
                u1 == AppendIf(u0, <<"wagtail.Collection">>, "add", base_url, add_url.val)
                loop == ForEachF(step, u1, add_url.cache, Take(rows, max_instances))
            IN IF Returned(loop) \/ loop.exc \in LoopHandled THEN Ret(loop.val)
               ELSE Raise(loop.exc)

CallHelperCollectionUrls ==
    /\ Idle
    /\ \E reg \in Registries(CollectionRoutes), rows \in Tables,
       base_url \in BaseUrls, max_instances \in Caps :
        Serve("helpers.collection.get_collection_urls",
              [reg |-> reg, rows |-> rows, base_url |-> base_url,
               max_instances |-> max_instances],
              h_get_collection_urls(reg, rows, base_url, max_instances))

(***************************************************************************)
(* helpers/redirect_helpers.py: RedirectsAdminURLFinder, get_redirects_urls*)
(***************************************************************************)
\* except (NoReverseMatch, ImproperlyConfigured)
RedirectsCaught == {"NoReverseMatch", "ImproperlyConfigured"}

redirects_get_cached_url(cache, reg, cache_key, name, args) ==
    IF cache_key \in DOMAIN cache THEN FRet(cache[cache_key], cache)
    ELSE LET r == reverse(reg, name, args)
         IN IF Returned(r) THEN FRet(r.val, CachePut(cache, cache_key, r.val))
            ELSE IF r.exc \in RedirectsCaught
                 THEN FRet(None, CachePut(cache, cache_key, None))
            ELSE FRaise(r.exc, cache)

\* except (NoReverseMatch, ImproperlyConfigured, AttributeError): log; return None
RedirectsMethodCaught == {"NoReverseMatch", "ImproperlyConfigured", "AttributeError"}

RedirectsMethod(r) ==
    IF ~Returned(r) /\ r.exc \in RedirectsMethodCaught THEN FRet(None, r.cache) ELSE r

h_get_redirects_index_url(cache, reg) ==
    RedirectsMethod(redirects_get_cached_url(cache, reg, <<"redirects_index">>,
                                             "wagtailredirects:index", <<>>))

h_get_redirect_add_url(cache, reg) ==
    RedirectsMethod(redirects_get_cached_url(cache, reg, <<"redirect_add">>,
                                             "wagtailredirects:add", <<>>))

h_get_redirect_edit_url(cache, reg, redirect_id) ==
    IF redirect_id = "0" THEN FRet(None, cache)
    ELSE RedirectsMethod(
            redirects_get_cached_url(cache, reg, <<"redirect_edit_", redirect_id>>,
                                     "wagtailredirects:edit", <<redirect_id>>))

h_get_redirect_delete_url(cache, reg, redirect_id) ==
    IF redirect_id = "0" THEN FRet(None, cache)
    ELSE RedirectsMethod(
            redirects_get_cached_url(cache, reg, <<"redirect_delete_", redirect_id>>,
                                     "wagtailredirects:delete", <<redirect_id>>))

h_get_all_redirect_urls(cache, reg, redirect_id) ==
    IF redirect_id = "0" THEN FRet(<<>>, cache)
    ELSE LET e == h_get_redirect_edit_url(cache, reg, redirect_id)
         IN IF ~Returned(e) THEN e
            ELSE LET d == h_get_redirect_delete_url(e.cache, reg, redirect_id)
                 IN IF ~Returned(d) THEN d
                    ELSE FRet(DictPutIf(DictPutIf(<<>>, "edit", e.val), "delete", d.val),
                              d.cache)

\* Faulty variant of RedirectsAdminURLFinder_init: the finder, and with it
\* the cache, is shared by the renders of the process.
FinderSharedByRenders(process_cache) == process_cache

\* url_finder = RedirectsAdminURLFinder(user): __init__ gives the new finder
\* an empty cache, whatever cache an earlier finder of the process holds.
RedirectsAdminURLFinder_init(process_cache) == EmptyCache

\* rows: Redirect.objects.all().order_by('old_path'), as get_redirects lists them.
\* process_cache: the cache of the finder of the process's previous render.
\* The result carries the cache of this render's finder.
h_collect_redirects_urls(process_cache, reg, rows, base_url, max_instances) ==
    LET url_finder == RedirectsAdminURLFinder_init(process_cache)
        index_url == h_get_redirects_index_url(url_finder, reg)
        add_url == h_get_redirect_add_url(index_url.cache, reg)
        step(urls, cache, redirect) ==
            LET all_urls == h_get_all_redirect_urls(cache, reg, redirect.id)
            IN IF ~Returned(all_urls)
               THEN [exc |-> all_urls.exc, val |-> urls, cache |-> cache]
               ELSE [exc |-> "none",
                     val |-> AppendItems(urls,
                                <<"wagtailredirects.Redirect", "_Instance_", redirect.id>>,
                                base_url, all_urls.val),
                     cache |-> all_urls.cache]
    IN IF ~Returned(index_url) THEN [exc |-> index_url.exc, val |-> <<>>, cache |-> index_url.cache]
       ELSE IF ~Returned(add_url) THEN [exc |-> add_url.exc, val |-> <<>>, cache |-> add_url.cache]
       ELSE LET u0 == AppendIf(<<>>, <<"wagtailredirects.Redirect">>, "index",
                               base_url, index_url.val)
                u1 == AppendIf(u0, <<"wagtailredirects.Redirect">>, "add",
                               base_url, add_url.val)
                loop == ForEachF(step, u1, add_url.cache, Take(rows, max_instances))
            IN IF Returned(loop) THEN loop
               ELSE [exc |-> loop.exc, val |-> <<>>, cache |-> loop.cache]

h_get_redirects_urls(reg, rows, base_url, max_instances) ==
    LET r == h_collect_redirects_urls(EmptyCache, reg, rows, base_url, max_instances)
    IN IF Returned(r) THEN Ret(r.val) ELSE Raise(r.exc)

CallHelperRedirectsUrls ==
    /\ Idle
    /\ \E reg \in Registries(RedirectRoutes), rows \in Tables,
       base_url \in BaseUrls, max_instances \in Caps :
        Serve("helpers.redirect_helpers.get_redirects_urls",
              [reg |-> reg, rows |-> rows, base_url |-> base_url,
               max_instances |-> max_instances],
              h_get_redirects_urls(reg, rows, base_url, max_instances))

\* A worker process renders the redirect report again and again.  Between
\* two renders the host's routes may change; the finder of the previous
\* render, with its cache, is still in the process's memory.  env.recovered
\* records the routes that failed at the previous render and resolve now.
FirstRender ==
    /\ Idle
    /\ \E reg \in Registries(RedirectRoutes), rows \in Tables, max_instances \in Caps :
        Serve("worker renders helpers.redirect_helpers.get_redirects_urls",
              [reg |-> reg, rows |-> rows, base_url |-> DEFAULT_BASE_URL,
               max_instances |-> max_instances, renders |-> 1, recovered |-> {}],
              h_collect_redirects_urls(EmptyCache, reg, rows, DEFAULT_BASE_URL,
                                       max_instances))

NextRender ==
    /\ op = "worker renders helpers.redirect_helpers.get_redirects_urls"
    /\ env.renders < MaxRenders
    /\ \E reg \in Registries(RedirectRoutes) :
        Serve(op,
              [env EXCEPT !.reg = reg, !.renders = @ + 1,
                          !.recovered = {n \in RedirectRoutes :
                                            env.reg[n] # "ok" /\ reg[n] = "ok"}],
              h_collect_redirects_urls(out.cache, reg, env.rows, env.base_url,
                                       env.max_instances))

(***************************************************************************)
(* viewsets/collection_report.py                                           *)
(***************************************************************************)
vs_get_collection_index_url(reg) ==
    CatchNoReverseMatch(reverse(reg, "wagtailadmin_collections:index", <<>>))

vs_get_collection_add_url(reg) ==
    CatchNoReverseMatch(reverse(reg, "wagtailadmin_collections:add", <<>>))

vs_get_collection_edit_url(reg, collection_id) ==
    CatchNoReverseMatch(reverse(reg, "wagtailadmin_collections:edit", <<collection_id>>))

vs_get_collection_delete_url(reg, collection_id) ==
    CatchNoReverseMatch(reverse(reg, "wagtailadmin_collections:delete", <<collection_id>>))

\* rows: Collection.objects.exclude(depth=1)
vs_get_collection_urls(reg, rows, base_url, max_instances) ==
    LET index_url == vs_get_collection_index_url(reg)
        add_url == vs_get_collection_add_url(reg)
        step(urls, collection) ==
            EditDeleteStep(vs_get_collection_edit_url(reg, collection.id),
                           vs_get_collection_delete_url(reg, collection.id),
                           <<"wagtail.Collection", collection.id>>, base_url, urls)
    IN IF ~Returned(index_url) THEN Raise(index_url.exc)
       ELSE IF ~Returned(add_url) THEN Raise(add_url.exc)
       ELSE LET u0 == AppendIf(<<>>, <<"wagtail.Collection">>, "index", base_url, index_url.val)
                u1 == AppendIf(u0, <<"wagtail.Collection">>, "add", base_url, add_url.val)
                loop == ForEach(step, u1, Take(rows, max_instances))
            IN IF Returned(loop) \/ loop.exc \in LoopHandled THEN Ret(loop.val)
               ELSE Raise(loop.exc)

CallViewsetCollectionUrls ==
    /\ Idle
    /\ \E reg \in Registries(CollectionRoutes), rows \in Tables,
          base_url \in BaseUrls, max_instances \in Caps :
        Serve("viewsets.collection_report.get_collection_urls",
              [reg |-> reg, rows |-> rows, base_url |-> base_url,
               max_instances |-> max_instances],
              vs_get_collection_urls(reg, rows, base_url, max_instances))

(***************************************************************************)
(* viewsets/locale_report.py: locales have no add route                    *)
(***************************************************************************)
LocaleRoutes == {"wagtaillocales:index", "wagtaillocales:edit", "wagtaillocales:delete"}

vs_get_locale_index_url(reg) ==
    CatchNoReverseMatch(reverse(reg, "wagtaillocales:index", <<>>))

vs_get_locale_edit_url(reg, locale_id) ==
    CatchNoReverseMatch(reverse(reg, "wagtaillocales:edit", <<locale_id>>))

vs_get_locale_delete_url(reg, locale_id) ==
    CatchNoReverseMatch(reverse(reg, "wagtaillocales:delete", <<locale_id>>))

vs_get_locale_urls(reg, rows, base_url, max_instances) ==
    LET index_url == vs_get_locale_index_url(reg)
        step(urls, locale) ==
            EditDeleteStep(vs_get_locale_edit_url(reg, locale.id),
                           vs_get_locale_delete_url(reg, locale.id),
                           <<"wagtail.Locale", locale.id>>, base_url, urls)
    IN IF ~Returned(index_url) THEN Raise(index_url.exc)
       ELSE LET u0 == AppendIf(<<>>, <<"wagtail.Locale">>, "index", base_url, index_url.val)
                loop == ForEach(step, u0, Take(rows, max_instances))
            IN IF Returned(loop) \/ loop.exc \in LoopHandled THEN Ret(loop.val)
               ELSE Raise(loop.exc)

CallViewsetLocaleUrls ==
    /\ Idle
    /\ \E reg \in Registries(LocaleRoutes), rows \in Tables,
          base_url \in BaseUrls, max_instances \in Caps :
        Serve("viewsets.locale_report.get_locale_urls",
              [reg |-> reg, rows |-> rows, base_url |-> base_url,
               max_instances |-> max_instances],
              vs_get_locale_urls(reg, rows, base_url, max_instances))

(***************************************************************************)
(* viewsets/site_report.py                                                 *)
(***************************************************************************)
SiteRoutes ==
    {"wagtailsites:index", "wagtailsites:add", "wagtailsites:edit", "wagtailsites:delete"}

\* Site.objects.all(): site i has primary key i, hostname "host<i>" and the
\* i-th port of 80, 443, 8000, 8001, ...
SitePort(i) == IF i = 1 THEN 80 ELSE IF i = 2 THEN 443 ELSE 7997 + i

SiteTables ==
    {[i \in 1..n |-> [id |-> ToString(i), hostname |-> "host" \o ToString(i),
                      port |-> SitePort(i)]] : n \in 0..MaxRows}

vs_get_site_index_url(reg) ==
    CatchNoReverseMatch(reverse(reg, "wagtailsites:index", <<>>))

vs_get_site_add_url(reg) ==
    CatchNoReverseMatch(reverse(reg, "wagtailsites:add", <<>>))

vs_get_site_edit_url(reg, site_id) ==
    CatchNoReverseMatch(reverse(reg, "wagtailsites:edit", <<site_id>>))

vs_get_site_delete_url(reg, site_id) ==
    CatchNoReverseMatch(reverse(reg, "wagtailsites:delete", <<site_id>>))

vs_get_site_frontend_url(site) ==
    LET protocol == IF site.port = 443 THEN "https" ELSE "http"
    IN IF site.port \in {80, 443}
       THEN Str(<<protocol, "://", site.hostname, "/">>)
       ELSE Str(<<protocol, "://", site.hostname, ":", ToString(site.port), "/">>)

\* Site.objects.all()[:max_instances] if max_instances else Site.objects.all()
vs_site_queryset(rows, max_instances) ==
    IF max_instances # 0 THEN Take(rows, max_instances) ELSE rows

vs_get_site_urls(reg, rows, base_url, max_instances) ==
    LET index_url == vs_get_site_index_url(reg)
        add_url == vs_get_site_add_url(reg)
        step(urls, site) ==
            LET model_name == <<"wagtail.Site", site.id, site.hostname>>
                r == EditDeleteStep(vs_get_site_edit_url(reg, site.id),
                                    vs_get_site_delete_url(reg, site.id),
                                    model_name, base_url, urls)
                frontend_url == vs_get_site_frontend_url(site)
            IN IF ~Returned(r) THEN r
               ELSE IF Truthy(frontend_url)
                    THEN Ret(Append(r.val, <<model_name, "frontend", frontend_url.s>>))
               ELSE r
    IN IF ~Returned(index_url) THEN Raise(index_url.exc)
       ELSE IF ~Returned(add_url) THEN Raise(add_url.exc)
       ELSE LET u0 == AppendIf(<<>>, <<"wagtail.Site">>, "index", base_url, index_url.val)
                u1 == AppendIf(u0, <<"wagtail.Site">>, "add", base_url, add_url.val)
                loop == ForEach(step, u1, vs_site_queryset(rows, max_instances))
            IN IF Returned(loop) \/ loop.exc \in LoopHandled THEN Ret(loop.val)
               ELSE Raise(loop.exc)

CallViewsetSiteUrls ==
    /\ Idle
    /\ \E reg \in Registries(SiteRoutes), rows \in SiteTables,
          base_url \in BaseUrls, max_instances \in Caps :
        Serve("viewsets.site_report.get_site_urls",
              [reg |-> reg, rows |-> rows, base_url |-> base_url,
               max_instances |-> max_instances],
              vs_get_site_urls(reg, rows, base_url, max_instances))

(***************************************************************************)
(* viewsets/user_report.py: users, then groups                             *)
(***************************************************************************)
UserRoutes ==
    {"wagtailusers_users:add", "wagtailusers_users:index",
     "wagtailusers_users:edit", "wagtailusers_users:delete"}

GroupRoutes ==
    {"wagtailusers_groups:add", "wagtailusers_groups:index",
     "wagtailusers_groups:edit", "wagtailusers_groups:delete"}

vs_get_user_add_url(reg) ==
    CatchNoReverseMatch(reverse(reg, "wagtailusers_users:add", <<>>))

vs_get_user_index_url(reg) ==
    CatchNoReverseMatch(reverse(reg, "wagtailusers_users:index", <<>>))

vs_get_user_edit_url(reg, pk) ==
    CatchNoReverseMatch(reverse(reg, "wagtailusers_users:edit", <<pk>>))

vs_get_user_delete_url(reg, pk) ==
    CatchNoReverseMatch(reverse(reg, "wagtailusers_users:delete", <<pk>>))

vs_get_group_add_url(reg) ==
    CatchNoReverseMatch(reverse(reg, "wagtailusers_groups:add", <<>>))

vs_get_group_index_url(reg) ==
    CatchNoReverseMatch(reverse(reg, "wagtailusers_groups:index", <<>>))

vs_get_group_edit_url(reg, pk) ==
    CatchNoReverseMatch(reverse(reg, "wagtailusers_groups:edit", <<pk>>))

vs_get_group_delete_url(reg, pk) ==
    CatchNoReverseMatch(reverse(reg, "wagtailusers_groups:delete", <<pk>>))

\* instances = X.objects.all(); if max_instances: instances = instances[:max_instances]
vs_user_queryset(rows, max_instances) ==
    IF max_instances # 0 THEN Take(rows, max_instances) ELSE rows

\* The add and index rows of one model, then the rows of its instances; no
\* handler encloses the instance loop.
vs_user_model_urls(urls, model_name, add_url, index_url, edit(_), delete(_), insts, base_url) ==
    LET step(us, instance) ==
            EditDeleteStep(edit(instance.id), delete(instance.id),
                           model_name, base_url, us)
    IN IF ~Returned(add_url) THEN Raise(add_url.exc)
       ELSE IF ~Returned(index_url) THEN Raise(index_url.exc)
       ELSE LET u0 == AppendIf(urls, model_name, "add", base_url, add_url.val)
                u1 == AppendIf(u0, model_name, "index", base_url, index_url.val)
                loop == ForEach(step, u1, insts)
            IN IF Returned(loop) THEN loop ELSE Raise(loop.exc)

vs_get_user_urls(reg, users, groups, base_url, max_instances) ==
    LET user_edit(pk) == vs_get_user_edit_url(reg, pk)
        user_delete(pk) == vs_get_user_delete_url(reg, pk)
        group_edit(pk) == vs_get_group_edit_url(reg, pk)
        group_delete(pk) == vs_get_group_delete_url(reg, pk)
        u == vs_user_model_urls(<<>>, <<"auth.User">>, vs_get_user_add_url(reg),
                                vs_get_user_index_url(reg), user_edit, user_delete,
                                vs_user_queryset(users, max_instances), base_url)
    IN IF ~Returned(u) THEN u
       ELSE vs_user_model_urls(u.val, <<"auth.Group">>, vs_get_group_add_url(reg),
                               vs_get_group_index_url(reg), group_edit, group_delete,
                               vs_user_queryset(groups, max_instances), base_url)

CallViewsetUserUrls ==
    /\ Idle
    /\ \E reg \in Registries(UserRoutes \cup GroupRoutes), users \in Tables,
          groups \in Tables, base_url \in {DEFAULT_BASE_URL}, max_instances \in Caps :
        Serve("viewsets.user_report.get_user_urls",
              [reg |-> reg, rows |-> users, groups |-> groups, base_url |-> base_url,
               max_instances |-> max_instances],
              vs_get_user_urls(reg, users, groups, base_url, max_instances))

(***************************************************************************)
(* helpers/settings_helpers.py                                             *)
(***************************************************************************)
SettingsRoutes == {"wagtailsettings:edit"}

\* except (NoReverseMatch, ImproperlyConfigured)
SettingsCaught == {"NoReverseMatch", "ImproperlyConfigured"}

settings_get_cached_url(cache, reg, cache_key, name, args) ==
    IF cache_key \in DOMAIN cache THEN FRet(cache[cache_key], cache)
    ELSE LET r == reverse(reg, name, args)
         IN IF Returned(r) THEN FRet(r.val, CachePut(cache, cache_key, r.val))
            ELSE IF r.exc \in SettingsCaught
                 THEN FRet(None, CachePut(cache, cache_key, None))
            ELSE FRaise(r.exc, cache)

\* A registered settings model.  site_pk is "" for None (no site).
\* cache_key = f"settings_edit_{model._meta.label}_{site_pk or 'default'}"
\* Faulty variant of settings_edit_cache_key: the site is left out of the key.
KeyWithoutSite(model, site_pk) == fstring(<<"settings_edit_", model.label>>)

settings_edit_cache_key(model, site_pk) ==
    fstring(<<"settings_edit_", model.label, "_",
              IF site_pk # "" THEN site_pk ELSE "default">>)

get_settings_edit_url(cache, reg, model, site_pk) ==
    LET cache_key == settings_edit_cache_key(model, site_pk)
        args == IF site_pk # "" THEN <<model.app_label, model.model_name, site_pk>>
                ELSE <<model.app_label, model.model_name>>
        r == settings_get_cached_url(cache, reg, cache_key, "wagtailsettings:edit", args)
    IN IF ~Returned(r) /\ r.exc \in {"NoReverseMatch", "ImproperlyConfigured",
                                     "AttributeError"}
       THEN FRet(None, r.cache)
       ELSE r

get_all_settings_urls(cache, reg, model, site_pk) ==
    LET e == get_settings_edit_url(cache, reg, model, site_pk)
    IN IF ~Returned(e) THEN e
       ELSE FRet(DictPutIf(<<>>, "edit", e.val), e.cache)

\* The settings models of the host: subclasses of BaseSiteSetting, which all
\* carry the `site` relation (is_multisite).
SiteSettingsModel(name) ==
    [label |-> "base." \o name, app_label |-> "base", model_name |-> name,
     is_multisite |-> TRUE]

SettingsModelLists ==
    {<<>>, <<SiteSettingsModel("sitesettings")>>,
     <<SiteSettingsModel("sitesettings"), SiteSettingsModel("footersettings")>>}

\* get_available_sites(): (site_id, site_hostname, site_name) of every site
SettingsSites == {[i \in 1..n |-> ToString(i)] : n \in 0..MaxSites}

RECURSIVE SeqOfSet(_)
SeqOfSet(S) ==
    IF S = {} THEN <<>>
    ELSE LET x == CHOOSE y \in S : \A z \in S : y <= z
         IN <<x>> \o SeqOfSet(S \ {x})

\* get_settings_instances(): for each settings model in turn, its instances
\* (one per site at most); has[k] is the set of site numbers that have an
\* instance of model k.  The instance of model k for site j has id j.
RECURSIVE settings_instances_of(_, _, _)
settings_instances_of(models, has, k) ==
    IF k > Len(models) THEN <<>>
    ELSE LET js == SeqOfSet(has[k])
         IN [i \in 1..Len(js) |->
                [model |-> models[k], id |-> ToString(js[i]),
                 site_id |-> ToString(js[i])]]
            \o settings_instances_of(models, has, k + 1)

get_settings_instances(models, has) == settings_instances_of(models, has, 1)

get_settings_urls(reg, models, sites, has, base_url, max_instances) ==
    LET settings_instances == get_settings_instances(models, has)
        inst_step(urls, cache, inst) ==
            LET name == IF inst.site_id # ""
                        THEN <<inst.model.label, "_Site_", inst.site_id,
                               "_Instance_", inst.id>>
                        ELSE <<inst.model.label, "_Instance_", inst.id>>
                all_urls == get_all_settings_urls(cache, reg, inst.model, inst.site_id)
            IN IF ~Returned(all_urls)
               THEN [exc |-> all_urls.exc, val |-> urls, cache |-> cache]
               ELSE [exc |-> "none",
                     val |-> AppendItems(urls, name, base_url, all_urls.val),
                     cache |-> all_urls.cache]
        model_step(urls, cache, model) ==
            IF model.is_multisite
            THEN ForEachF(LAMBDA u, c, sid :
                            LET all_urls == get_all_settings_urls(c, reg, model, sid)
                            IN IF ~Returned(all_urls)
                               THEN [exc |-> all_urls.exc, val |-> u, cache |-> c]
                               ELSE [exc |-> "none",
                                     val |-> AppendItems(u, <<model.label, "_Site_", sid>>,
                                                         base_url, all_urls.val),
                                     cache |-> all_urls.cache],
                          urls, cache, sites)
            ELSE LET all_urls == get_all_settings_urls(cache, reg, model, "")
                 IN IF ~Returned(all_urls)
                    THEN [exc |-> all_urls.exc, val |-> urls, cache |-> cache]
                    ELSE [exc |-> "none",
                          val |-> AppendItems(urls, <<model.label>>, base_url, all_urls.val),
                          cache |-> all_urls.cache]
        loop == IF settings_instances # <<>>
                THEN ForEachF(inst_step, <<>>, EmptyCache,
                              Take(settings_instances, max_instances))
                ELSE ForEachF(model_step, <<>>, EmptyCache, Take(models, max_instances))
    IN IF Returned(loop) THEN Ret(loop.val) ELSE Raise(loop.exc)

CallHelperSettingsUrls ==
    /\ Idle
    /\ \E reg \in Registries(SettingsRoutes), models \in SettingsModelLists,
          sites \in SettingsSites, base_url \in BaseUrls, max_instances \in Caps :
        \E has \in [1..Len(models) -> SUBSET (1..Len(sites))] :
            Serve("helpers.settings_helpers.get_settings_urls",
                  [reg |-> reg, models |-> models, sites |-> sites,
                   rows |-> get_settings_instances(models, has),
                   base_url |-> base_url, max_instances |-> max_instances],
                  get_settings_urls(reg, models, sites, has, base_url, max_instances))

(***************************************************************************)
(* helpers/generic_helpers.py: GenericModelAdminURLFinder.get_add_url.     *)
(* Its handler names NoReverseMatch and ImproperlyConfigured, which the    *)
(* module never imports: when an exception reaches the handler, evaluating *)
(* the handler's tuple raises NameError.                                   *)
(***************************************************************************)
GenericModels == {"country"}

GenericRoutes(model_name) ==
    {model_name \o ":" \o a :
        a \in {"add", "index", "edit", "delete", "copy", "history", "usage"}}

generic_get_add_url(cache, reg, model_name) ==
    LET r == base_get_cached_url(cache, reg, <<"add_", model_name>>,
                                 model_name \o ":add", <<>>)
    IN IF Returned(r) THEN r ELSE FRaise("NameError", r.cache)

(***************************************************************************)
(* The resolvers, called on their own.                                     *)
(***************************************************************************)
CallBaseGetCachedUrl ==
    /\ Idle
    /\ \E reg \in Registries({"wagtailadmin_collections:index"}) :
        LET r == h_get_collection_index_url(EmptyCache, reg)
        IN Serve("helpers.base.UnveilURLFinder._get_cached_url",
                 [reg |-> reg, name |-> "wagtailadmin_collections:index"],
                 [exc |-> r.exc, val |-> r.val])

CallBaseSafeUrlGeneration ==
    /\ Idle
    /\ \E reg \in Registries({"wagtailadmin_collections:index"}) :
        Serve("helpers.base.UnveilURLFinder._safe_url_generation",
              [reg |-> reg, name |-> "wagtailadmin_collections:index"],
              base_safe_url_generation(reg, "wagtailadmin_collections:index", <<>>))

CallGenericGetAddUrl ==
    /\ Idle
    /\ \E model_name \in GenericModels :
        \E reg \in Registries({model_name \o ":add"}) :
            LET r == generic_get_add_url(EmptyCache, reg, model_name)
            IN Serve("helpers.generic_helpers.GenericModelAdminURLFinder.get_add_url",
                     [reg |-> reg, name |-> model_name \o ":add"],
                     [exc |-> r.exc, val |-> r.val])

CallRedirectsGetCachedUrl ==
    /\ Idle
    /\ \E name \in RedirectRoutes :
        \E reg \in Registries({name}) :
            LET r == redirects_get_cached_url(EmptyCache, reg, <<"key">>, name, <<"1">>)
            IN Serve("helpers.redirect_helpers.RedirectsAdminURLFinder._get_cached_url",
                     [reg |-> reg, name |-> name],
                     [exc |-> r.exc, val |-> r.val])

CallViewsetGetRedirectEditUrl ==
    /\ Idle
    /\ \E reg \in Registries({"wagtailredirects:edit"}) :
        Serve("viewsets.redirect_report.get_redirect_edit_url",
              [reg |-> reg, name |-> "wagtailredirects:edit"],
              vs_get_redirect_edit_url(reg, "1"))

(***************************************************************************)
(* viewsets/generic_report.py                                              *)
(***************************************************************************)
\* try: url = reverse(name, args); urls.append(...)  except NoReverseMatch: pass
TryAppend(r, model_name, url_type, base_url, rv) ==
    IF ~Returned(r) THEN r
    ELSE IF Returned(rv)
         THEN Ret(Append(r.val, <<model_name, url_type, base_url \o rv.val.s>>))
    ELSE IF rv.exc = "NoReverseMatch" THEN r
    ELSE [exc |-> rv.exc, val |-> r.val]

\* models: get_generic_models(), the configured identifiers that name a model
vs_get_generic_urls(reg, models, table, base_url, max_instances) ==
    LET model_step(urls, m) ==
            LET name == <<"breads.", m>>
                a == TryAppend(Ret(urls), name, "add", base_url,
                               reverse(reg, m \o ":add", <<>>))
                l == TryAppend(a, name, "list", base_url,
                               reverse(reg, m \o ":index", <<>>))
                instances == IF max_instances # 0 THEN Take(table[m], max_instances)
                             ELSE table[m]
                inst_step(us, instance) ==
                    LET e == TryAppend(Ret(us), name, "edit", base_url,
                                       reverse(reg, m \o ":edit", <<instance.id>>))
                        d == TryAppend(e, name, "delete", base_url,
                                       reverse(reg, m \o ":delete", <<instance.id>>))
                        c == TryAppend(d, name, "copy", base_url,
                                       reverse(reg, m \o ":copy", <<instance.id>>))
                        h == TryAppend(c, name, "history", base_url,
                                       reverse(reg, m \o ":history", <<instance.id>>))
                    IN TryAppend(h, name, "usage", base_url,
                                 reverse(reg, m \o ":usage", <<instance.id>>))
            IN IF ~Returned(l) THEN l ELSE ForEach(inst_step, l.val, instances)
        loop == ForEach(model_step, <<>>, models)
    IN IF Returned(loop) THEN loop ELSE Raise(loop.exc)

GenericModelLists == {<<>>} \cup {<<m>> : m \in GenericModels}

CallViewsetGenericUrls ==
    /\ Idle
    /\ \E models \in GenericModelLists, base_url \in BaseUrls, max_instances \in Caps :
        \E reg \in Registries(UNION {GenericRoutes(models[i]) : i \in 1..Len(models)}),
           table \in [{models[i] : i \in 1..Len(models)} -> Tables] :
            Serve("viewsets.generic_report.get_generic_urls",
                  [reg |-> reg, models |-> models, table |-> table,
                   base_url |-> base_url, max_instances |-> max_instances],
                  vs_get_generic_urls(reg, models, table, base_url, max_instances))

(***************************************************************************)
(* helpers/site_helpers.py: SiteAdminURLFinder and get_site_urls           *)
(***************************************************************************)
\* except (NoReverseMatch, ImproperlyConfigured)
SiteCaught == {"NoReverseMatch", "ImproperlyConfigured"}

site_get_cached_url(cache, reg, cache_key, name, args) ==
    IF cache_key \in DOMAIN cache THEN FRet(cache[cache_key], cache)
    ELSE LET r == reverse(reg, name, args)
         IN IF Returned(r) THEN FRet(r.val, CachePut(cache, cache_key, r.val))
            ELSE IF r.exc \in SiteCaught
                 THEN FRet(None, CachePut(cache, cache_key, None))
            ELSE FRaise(r.exc, cache)

\* except (NoReverseMatch, ImproperlyConfigured, AttributeError): log; return None
SiteMethod(r) ==
    IF ~Returned(r) /\ r.exc \in {"NoReverseMatch", "ImproperlyConfigured", "AttributeError"}
    THEN FRet(None, r.cache) ELSE r

h_site_get_add_url(cache, reg) ==
    SiteMethod(site_get_cached_url(cache, reg, <<"add_site">>, "wagtailsites:add", <<>>))

h_site_get_index_url(cache, reg) ==
    SiteMethod(site_get_cached_url(cache, reg, <<"index_site">>, "wagtailsites:index", <<>>))

h_site_get_edit_url(cache, reg, instance) ==
    site_get_cached_url(cache, reg, <<"edit_site_", instance.id>>,
                        "wagtailsites:edit", <<instance.id>>)

h_site_get_delete_url(cache, reg, instance) ==
    site_get_cached_url(cache, reg, <<"delete_site_", instance.id>>,
                        "wagtailsites:delete", <<instance.id>>)

\* Faulty variant of h_site_get_frontend_url: https for every port but 80.
FrontendHttpsUnlessPort80(instance) ==
    LET protocol == IF instance.port = 80 THEN "http" ELSE "https"
    IN IF instance.port \in {80, 443}
       THEN Str(<<protocol, "://", instance.hostname, "/">>)
       ELSE Str(<<protocol, "://", instance.hostname, ":", ToString(instance.port), "/">>)

h_site_get_frontend_url(instance) ==
    LET protocol == IF instance.port = 443 THEN "https" ELSE "http"
    IN IF instance.port \in {80, 443}
       THEN Str(<<protocol, "://", instance.hostname, "/">>)
       ELSE Str(<<protocol, "://", instance.hostname, ":", ToString(instance.port), "/">>)

h_site_get_all_urls(cache, reg, instance) ==
    LET e == h_site_get_edit_url(cache, reg, instance)
    IN IF ~Returned(e) THEN e
       ELSE LET d == h_site_get_delete_url(e.cache, reg, instance)
            IN IF ~Returned(d) THEN d
               ELSE FRet(DictPutIf(DictPutIf(DictPutIf(<<>>, "edit", e.val),
                                             "delete", d.val),
                                   "frontend", h_site_get_frontend_url(instance)),
                         d.cache)

\* for url_type, url in all_urls.items(): a frontend url is appended as it
\* is, any other url after base_url.
RECURSIVE AppendSiteItems(_, _, _, _)
AppendSiteItems(urls, model_name, base_url, items) ==
    IF items = <<>> THEN urls
    ELSE LET url_type == Head(items)[1]
             url == Head(items)[2].s
             row == IF url_type = "frontend" THEN <<model_name, url_type, url>>
                    ELSE <<model_name, url_type, base_url \o url>>
         IN AppendSiteItems(Append(urls, row), model_name, base_url, Tail(items))

h_get_site_urls(reg, rows, base_url, max_instances) ==
    LET add_url == h_site_get_add_url(EmptyCache, reg)
        index_url == h_site_get_index_url(add_url.cache, reg)
        step(urls, cache, instance) ==
            LET all_urls == h_site_get_all_urls(cache, reg, instance)
            IN IF ~Returned(all_urls)
               THEN [exc |-> all_urls.exc, val |-> urls, cache |-> cache]
               ELSE [exc |-> "none",
                     val |-> AppendSiteItems(urls, <<"wagtailcore.Site">>, base_url,
                                             all_urls.val),
                     cache |-> all_urls.cache]
    IN IF ~Returned(add_url) THEN Raise(add_url.exc)
       ELSE IF ~Returned(index_url) THEN Raise(index_url.exc)
       ELSE LET u0 == AppendIf(<<>>, <<"wagtailcore.Site">>, "add", base_url, add_url.val)
                u1 == AppendIf(u0, <<"wagtailcore.Site">>, "index", base_url, index_url.val)
                loop == ForEachF(step, u1, index_url.cache, Take(rows, max_instances))
            IN IF Returned(loop) THEN Ret(loop.val) ELSE Raise(loop.exc)

CallHelperSiteUrls ==
    /\ Idle
    /\ \E reg \in Registries(SiteRoutes), rows \in SiteTables,
          base_url \in BaseUrls, max_instances \in Caps :
        Serve("helpers.site_helpers.get_site_urls",
              [reg |-> reg, rows |-> rows, base_url |-> base_url,
               max_instances |-> max_instances],
              h_get_site_urls(reg, rows, base_url, max_instances))

(***************************************************************************)
(* Pages.  page.url is None for a page without a route, a path, or an      *)
(* absolute url when the page lives on another site than the current one.  *)
(* A url is the sequence of its parts, the first of which says how it      *)
(* starts.                                                                 *)
(***************************************************************************)
PageUrl(i) ==
    IF i = 1 THEN Str(<<"/", "page1/">>)
    ELSE IF i = 2 THEN Str(<<"http", "://host2/page2/">>)
    ELSE IF i = 3 THEN None
    ELSE Str(<<"page" \o ToString(i) \o "/">>)

\* The class of a page is the page model it was created as.
PageTables ==
    {[i \in 1..n |-> [id |-> ToString(i), title |-> "title" \o ToString(i),
                      url |-> PageUrl(i), class |-> "breads.breadpage"]] :
        n \in 0..MaxRows}

\* The page models of the host, by label_lower: BreadPage and LocationPage
\* derive from Page, SpecialBreadPage derives from BreadPage.
PageSuperclass(model) ==
    IF model = "breads.specialbreadpage" THEN "breads.breadpage" ELSE "wagtailcore.page"

RECURSIVE issubclass_page(_, _)
issubclass_page(class, model) ==
    \/ class = model
    \/ class # "wagtailcore.page" /\ issubclass_page(PageSuperclass(class), model)

\* model.objects.live(): with multi-table inheritance the queryset of a
\* model holds the pages of the model and of every model derived from it,
\* each as an instance of `model`.
live(model, pages) ==
    LET own == SelectSeq(pages, LAMBDA p : issubclass_page(p.class, model))
    IN [i \in 1..Len(own) |-> [own[i] EXCEPT !.class = model]]

\* view_url.startswith('http') / view_url.startswith('/')
startswith(url, prefix) == url # <<>> /\ Head(url) = prefix

\* base_url.rstrip('/')
RECURSIVE rstrip_slash(_)
rstrip_slash(url) ==
    IF url # <<>> /\ url[Len(url)] = "/" THEN rstrip_slash(SubSeq(url, 1, Len(url) - 1))
    ELSE url

(***************************************************************************)
(* viewsets/form_report.py                                                 *)
(***************************************************************************)
FormRoutes ==
    {"wagtailforms:index", "wagtailforms:list_submissions",
     "wagtailforms:delete_submissions"}

FormBaseUrls == BaseUrls \cup {<<"https://cms.example.com", "/">>}

vs_get_forms_index_url(reg) ==
    CatchNoReverseMatch(reverse(reg, "wagtailforms:index", <<>>))

vs_get_form_submissions_list_url(reg, page_id) ==
    CatchNoReverseMatch(reverse(reg, "wagtailforms:list_submissions", <<page_id>>))

vs_get_form_submissions_delete_url(reg, page_id) ==
    CatchNoReverseMatch(reverse(reg, "wagtailforms:delete_submissions", <<page_id>>))

\* form_pages: get_form_pages_with_submissions(), the pages that have
\* submissions and exist
vs_get_forms_urls(reg, form_pages, base_url, max_instances) ==
    LET name == <<"wagtailforms.FormSubmission">>
        forms_index_url == vs_get_forms_index_url(reg)
        limited_form_pages == IF max_instances # 0 THEN Take(form_pages, max_instances)
                              ELSE form_pages
        step(urls, page) ==
            LET page_name == <<"wagtailforms.FormSubmission", "_Page_", page.id>>
                list_url == vs_get_form_submissions_list_url(reg, page.id)
                delete_url == vs_get_form_submissions_delete_url(reg, page.id)
            IN IF ~Returned(list_url) THEN [exc |-> list_url.exc, val |-> urls]
               ELSE IF ~Returned(delete_url) THEN [exc |-> delete_url.exc, val |-> urls]
               ELSE LET u1 == AppendIf(urls, page_name, "list_submissions",
                                       base_url, list_url.val)
                        u2 == AppendIf(u1, page_name, "delete_submissions",
                                       base_url, delete_url.val)
                    IN Ret(AppendIf(u2, page_name, "frontend_form",
                                    rstrip_slash(base_url), page.url))
    IN IF ~Returned(forms_index_url) THEN Raise(forms_index_url.exc)
       ELSE LET u0 == AppendIf(<<>>, name, "forms_index", base_url, forms_index_url.val)
                loop == ForEach(step, u0, limited_form_pages)
            IN IF Returned(loop) THEN loop ELSE Raise(loop.exc)

CallViewsetFormsUrls ==
    /\ Idle
    /\ \E reg \in Registries(FormRoutes), rows \in PageTables,
          base_url \in FormBaseUrls, max_instances \in Caps :
        Serve("viewsets.form_report.get_forms_urls",
              [reg |-> reg, rows |-> rows, base_url |-> base_url,
               max_instances |-> max_instances],
              vs_get_forms_urls(reg, rows, base_url, max_instances))

(***************************************************************************)
(* viewsets/page_report.py.  The collector's accumulator carries, besides  *)
(* the url list, the number of calls of reverse() made so far.             *)
(***************************************************************************)
PageViewsetRoutes ==
    {"wagtailadmin_pages:add", "wagtailadmin_pages:edit", "wagtailadmin_pages:delete",
     "wagtailadmin_pages:copy", "wagtailadmin_pages:move", "wagtailadmin_pages:history",
     "wagtailadmin_pages:workflow_history", "wagtailadmin_explore"}

\* get_page_models(): the base Page model and the concrete page types
PageModelLists == {<<"wagtailcore.page">>, <<"wagtailcore.page", "breads.breadpage">>}

PageModelName(model) ==
    IF model = "breads.breadpage" THEN "breads.BreadPage"
    ELSE IF model = "breads.specialbreadpage" THEN "breads.SpecialBreadPage"
    ELSE IF model = "locations.locationpage" THEN "locations.LocationPage"
    ELSE "wagtailcore.Page"

vs_get_page_add_url(reg, model, parent_id) ==
    CatchNoReverseMatch(reverse(reg, "wagtailadmin_pages:add", <<model, parent_id>>))

vs_get_page_edit_url(reg, page_id) ==
    CatchNoReverseMatch(reverse(reg, "wagtailadmin_pages:edit", <<page_id>>))

vs_get_page_delete_url(reg, page_id) ==
    CatchNoReverseMatch(reverse(reg, "wagtailadmin_pages:delete", <<page_id>>))

vs_get_page_copy_url(reg, page_id) ==
    CatchNoReverseMatch(reverse(reg, "wagtailadmin_pages:copy", <<page_id>>))

vs_get_page_move_url(reg, page_id) ==
    CatchNoReverseMatch(reverse(reg, "wagtailadmin_pages:move", <<page_id>>))

vs_get_page_history_url(reg, page_id) ==
    CatchNoReverseMatch(reverse(reg, "wagtailadmin_pages:history", <<page_id>>))

vs_get_page_workflow_history_url(reg, page_id) ==
    CatchNoReverseMatch(reverse(reg, "wagtailadmin_pages:workflow_history", <<page_id>>))

vs_get_page_index_url(reg, page_id) ==
    CatchNoReverseMatch(reverse(reg, "wagtailadmin_explore", <<page_id>>))

\* Faulty variant of PageRow: a route that did not resolve is resolved a
\* second time.
PageRowRetrying(acc, model_name, url_type, base_url, r) ==
    IF ~Returned(acc) THEN acc
    ELSE IF ~Returned(r) THEN [exc |-> r.exc, val |-> acc.val, calls |-> acc.calls + 1]
    ELSE [exc |-> "none",
          val |-> AppendIf(acc.val, model_name, url_type, base_url, r.val),
          calls |-> acc.calls + (IF Truthy(r.val) THEN 1 ELSE 2)]

\* x_url = get_page_x_url(...); if x_url: urls.append(...).  Every
\* get_page_x_url calls reverse() once.
PageRow(acc, model_name, url_type, base_url, r) ==
    IF ~Returned(acc) THEN acc
    ELSE IF ~Returned(r) THEN [exc |-> r.exc, val |-> acc.val, calls |-> acc.calls + 1]
    ELSE [exc |-> "none",
          val |-> AppendIf(acc.val, model_name, url_type, base_url, r.val),
          calls |-> acc.calls + 1]

\* if hasattr(instance, 'url') and instance.url: ... urls.append((.., 'view', view_url))
PageViewRow(acc, model_name, base_url, url) ==
    IF ~Returned(acc) \/ ~Truthy(url) THEN acc
    ELSE LET view_url == IF startswith(url.s, "http") THEN url.s
                         ELSE IF startswith(url.s, "/") THEN base_url \o url.s
                         ELSE base_url \o <<"/">> \o url.s
         IN [acc EXCEPT !.val = Append(acc.val, <<model_name, "view", view_url>>)]

vs_page_instance_urls(acc, reg, model, base_url, instance) ==
    LET n == <<PageModelName(model), "_", instance.id, "_", instance.title>>
        id == instance.id
        a1 == PageRow(acc, n, "edit", base_url, vs_get_page_edit_url(reg, id))
        a2 == PageRow(a1, n, "delete", base_url, vs_get_page_delete_url(reg, id))
        a3 == PageRow(a2, n, "copy", base_url, vs_get_page_copy_url(reg, id))
        a4 == PageRow(a3, n, "move", base_url, vs_get_page_move_url(reg, id))
        a5 == PageRow(a4, n, "history", base_url, vs_get_page_history_url(reg, id))
        a6 == PageRow(a5, n, "workflow_history", base_url,
                      vs_get_page_workflow_history_url(reg, id))
        a7 == PageRow(a6, n, "index", base_url, vs_get_page_index_url(reg, id))
    IN PageViewRow(a7, n, base_url, instance.url)

RECURSIVE vs_page_instances(_, _, _, _, _)
vs_page_instances(acc, reg, model, base_url, instances) ==
    IF instances = <<>> \/ ~Returned(acc) THEN acc
    ELSE vs_page_instances(vs_page_instance_urls(acc, reg, model, base_url, Head(instances)),
                           reg, model, base_url, Tail(instances))

\* One turn of `for model in page_models`.
vs_page_model_urls(acc, reg, model, has_root, rows, base_url, max_instances) ==
    IF ~Returned(acc) \/ model = "wagtailcore.page" THEN acc
    ELSE LET a0 == IF has_root
                   THEN PageRow(acc, <<PageModelName(model)>>, "add", base_url,
                                vs_get_page_add_url(reg, model, "root"))
                   ELSE acc
             instances == IF max_instances # 0 THEN Take(live(model, rows), max_instances)
                          ELSE live(model, rows)
             loop == vs_page_instances(a0, reg, model, base_url, instances)
         IN IF loop.exc \in LoopHandled THEN [loop EXCEPT !.exc = "none"] ELSE loop

RECURSIVE vs_page_models(_, _, _, _, _, _, _)
vs_page_models(acc, reg, models, has_root, rows, base_url, max_instances) ==
    IF models = <<>> THEN acc
    ELSE vs_page_models(
            vs_page_model_urls(acc, reg, Head(models), has_root, rows, base_url, max_instances),
            reg, Tail(models), has_root, rows, base_url, max_instances)

\* The result carries the number of reverse() calls of the render in `calls`.
vs_get_page_urls(reg, models, has_root, rows, base_url, max_instances) ==
    vs_page_models([exc |-> "none", val |-> <<>>, calls |-> 0],
                   reg, models, has_root, rows, base_url, max_instances)

CallViewsetPageUrls ==
    /\ Idle
    /\ \E reg \in Registries(PageViewsetRoutes), models \in PageModelLists,
          has_root \in BOOLEAN, rows \in PageTables, max_instances \in Caps :
        Serve("viewsets.page_report.get_page_urls",
              [reg |-> reg, models |-> models, has_root |-> has_root, rows |-> rows,
               base_url |-> DEFAULT_BASE_URL, max_instances |-> max_instances],
              vs_get_page_urls(reg, models, has_root, rows, DEFAULT_BASE_URL, max_instances))

(***************************************************************************)
(* Failing queries.  Evaluating Model.objects.all()[:max_instances] either *)
(* returns the rows or raises: TypeError or ValueError for a slice bound   *)
(* the ORM rejects, AttributeError for a model without the manager,        *)
(* django.db.DatabaseError when the database refuses the query (a missing  *)
(* table, a lost connection).                                              *)
(***************************************************************************)
QueryFailures == {"AttributeError", "ValueError", "TypeError", "DatabaseError"}

\* The result of a collector together with whether it wrote the error it
\* caught to its log.
Logged(r, logged) == [exc |-> r.exc, val |-> r.val, logged |-> logged]

\* viewsets/redirect_report.py get_redirect_urls when line 53 raises e: the
\* index and add rows are collected before the try, and both except clauses
\* are `pass`.
vs_get_redirect_urls_query_raises(reg, e, base_url, max_instances) ==
    LET type_level == vs_get_redirect_urls(reg, <<>>, base_url, max_instances)
    IN IF ~Returned(type_level) THEN Logged(type_level, FALSE)
       ELSE IF e \in LoopHandled THEN Logged(type_level, FALSE)
       ELSE Logged([exc |-> e, val |-> <<>>], FALSE)

CallViewsetRedirectUrlsQueryRaises ==
    /\ Idle
    /\ \E reg \in Registries(RedirectRoutes), e \in QueryFailures,
          base_url \in BaseUrls, max_instances \in Caps :
        Serve("viewsets.redirect_report.get_redirect_urls, query raises",
              [reg |-> reg, query_error |-> e, base_url |-> base_url,
               max_instances |-> max_instances],
              vs_get_redirect_urls_query_raises(reg, e, base_url, max_instances))

(***************************************************************************)
(* helpers/document.py: DocumentAdminURLFinder and get_document_urls       *)
(***************************************************************************)
DocumentRoutes ==
    {"wagtaildocs:add", "wagtaildocs:index", "wagtaildocs:edit", "wagtaildocs:delete"}

h_get_document_add_url(cache, reg) ==
    base_get_cached_url(cache, reg, <<"add_document">>, "wagtaildocs:add", <<>>)

h_get_document_index_url(cache, reg) ==
    base_get_cached_url(cache, reg, <<"index_document">>, "wagtaildocs:index", <<>>)

h_get_document_edit_url(cache, reg, instance) ==
    base_get_cached_url(cache, reg, <<"edit_document_", instance.id>>,
                        "wagtaildocs:edit", <<instance.id>>)

h_get_document_delete_url(cache, reg, instance) ==
    base_get_cached_url(cache, reg, <<"delete_document_", instance.id>>,
                        "wagtaildocs:delete", <<instance.id>>)

h_get_all_document_urls(cache, reg, instance) ==
    LET e == h_get_document_edit_url(cache, reg, instance)
    IN IF ~Returned(e) THEN e
       ELSE LET d == h_get_document_delete_url(e.cache, reg, instance)
            IN IF ~Returned(d) THEN d
               ELSE FRet(DictPutIf(DictPutIf(<<>>, "edit", e.val), "delete", d.val),
                         d.cache)

\* query: what evaluating DocumentModel.objects.all() gives, Ret(rows) or
\* Raise(e).
h_get_document_urls(reg, query, base_url, max_instances) ==
    LET model_name == <<"wagtaildocs.Document">>
        add_url == h_get_document_add_url(EmptyCache, reg)
        index_url == h_get_document_index_url(add_url.cache, reg)
        step(urls, cache, instance) ==
            LET all_urls == h_get_all_document_urls(cache, reg, instance)
            IN IF ~Returned(all_urls)
               THEN [exc |-> all_urls.exc, val |-> urls, cache |-> cache]
               ELSE [exc |-> "none",
                     val |-> AppendItems(urls, model_name, base_url, all_urls.val),
                     cache |-> all_urls.cache]
    IN IF ~Returned(add_url) THEN Logged(Raise(add_url.exc), FALSE)
       ELSE IF ~Returned(index_url) THEN Logged(Raise(index_url.exc), FALSE)
       ELSE LET u0 == AppendIf(<<>>, model_name, "add", base_url, add_url.val)
                u1 == AppendIf(u0, model_name, "index", base_url, index_url.val)
            IN IF ~Returned(query)
               THEN IF query.exc \in {"AttributeError", "ValueError", "TypeError"}
                    THEN Logged(Ret(u1), TRUE)
                    ELSE Logged(Raise(query.exc), FALSE)
               ELSE LET loop == ForEachF(step, u1, index_url.cache,
                                         Take(query.val, max_instances))
                    IN IF Returned(loop) THEN Logged(Ret(loop.val), FALSE)
                       ELSE Logged(Raise(loop.exc), FALSE)

DocumentQueries == {Ret(rows) : rows \in Tables} \cup {Raise(e) : e \in QueryFailures}

CallHelperDocumentUrls ==
    /\ Idle
    /\ \E reg \in Registries(DocumentRoutes), query \in DocumentQueries,
          base_url \in BaseUrls, max_instances \in Caps :
        Serve("helpers.document.get_document_urls",
              [reg |-> reg, query |-> query, base_url |-> base_url,
               max_instances |-> max_instances],
              h_get_document_urls(reg, query, base_url, max_instances))

(***************************************************************************)
(* helpers/page_helpers.py: PageAdminURLFinder._get_cached_url             *)
(***************************************************************************)
\* except (NoReverseMatch, ImproperlyConfigured)
PageCaught == {"NoReverseMatch", "ImproperlyConfigured"}

page_get_cached_url(cache, reg, cache_key, name, args) ==
    IF cache_key \in DOMAIN cache THEN FRet(cache[cache_key], cache)
    ELSE LET r == reverse(reg, name, args)
         IN IF Returned(r) THEN FRet(r.val, CachePut(cache, cache_key, r.val))
            ELSE IF r.exc \in PageCaught
                 THEN FRet(None, CachePut(cache, cache_key, None))
            ELSE FRaise(r.exc, cache)

(***************************************************************************)
(* One finder object and the lookups made on it.  A lookup is a call of    *)
(* _get_cached_url(cache_key, reverse, route, args=[pk]); between lookups  *)
(* the host's routes may change.  env counts, per cache key and since the  *)
(* last clear_cache, the calls of reverse, and keeps the outcome of the    *)
(* key's first lookup.                                                     *)
(***************************************************************************)
FinderClasses == {"UnveilURLFinder", "PageAdminURLFinder"}

LookupPks == {"1", "2"}

LookupRoute == "wagtailadmin_pages:edit"

LookupKey(pk) == <<"edit_", pk>>

finder_get_cached_url(class, cache, reg, cache_key, name, args) ==
    IF class = "PageAdminURLFinder"
    THEN page_get_cached_url(cache, reg, cache_key, name, args)
    ELSE base_get_cached_url(cache, reg, cache_key, name, args)

NoLookups ==
    [pk \in LookupPks |-> [seen |-> FALSE, failed |-> FALSE, exc |-> "none", val |-> None]]

NewFinder ==
    /\ Idle
    /\ \E class \in FinderClasses :
        Serve("finder._get_cached_url",
              [class |-> class, lookups |-> 0, pk |-> "1", repeated |-> FALSE,
               resolved |-> [pk \in LookupPks |-> 0], first |-> NoLookups],
              FRet(None, EmptyCache))

Lookup ==
    /\ op = "finder._get_cached_url"
    /\ env.lookups < MaxLookups
    /\ \E pk \in LookupPks, status \in RouteStatus :
        LET reg == [n \in {LookupRoute} |-> status]
            r == finder_get_cached_url(env.class, out.cache, reg, LookupKey(pk),
                                       LookupRoute, <<pk>>)
            resolves == LookupKey(pk) \notin DOMAIN out.cache
        IN Serve(op,
                 [env EXCEPT !.lookups = @ + 1, !.pk = pk,
                             !.repeated = env.first[pk].seen,
                             !.resolved[pk] = IF resolves THEN @ + 1 ELSE @,
                             !.first[pk] = IF @.seen THEN @
                                           ELSE [seen |-> TRUE, failed |-> status # "ok",
                                                 exc |-> r.exc, val |-> r.val]],
                 r)

\* self._url_cache.clear()
clear_cache(cache) == EmptyCache

ClearCache ==
    /\ op = "finder._get_cached_url"
    /\ env.lookups > 0
    /\ env.lookups < MaxLookups
    /\ Serve(op,
             [env EXCEPT !.lookups = @ + 1, !.repeated = FALSE,
                         !.resolved = [pk \in LookupPks |-> 0], !.first = NoLookups],
             FRet(None, clear_cache(out.cache)))

(***************************************************************************)
(* helpers/page_helpers.py: PageAdminURLFinder.  A user is the permissions *)
(* ModelPermissionPolicy(Page) grants; a finder built without a user has   *)
(* self.user = None.                                                       *)
(***************************************************************************)
PagePermissions == {"add", "change", "delete"}

NoUser == [supplied |-> FALSE, perms |-> {}]

Users == {NoUser} \cup {[supplied |-> TRUE, perms |-> P] : P \in SUBSET PagePermissions}

\* self.user and not self.permission_policy.user_has_permission...(self.user, action, ...)
Denied(user, action) == user.supplied /\ action \notin user.perms

\* except (NoReverseMatch, ImproperlyConfigured, AttributeError): log; return None
PageMethod(r) ==
    IF ~Returned(r) /\ r.exc \in {"NoReverseMatch", "ImproperlyConfigured", "AttributeError"}
    THEN [r EXCEPT !.exc = "none", !.val = None] ELSE r

\* get_add_url(model, parent): parent is "none" or the parent's pk.  The
\* result carries in `depth` how deep the call recursed.
RECURSIVE page_get_add_url(_, _, _, _, _, _, _)
page_get_add_url(cache, reg, user, model, has_root, parent, depth) ==
    IF Denied(user, "add") THEN [exc |-> "none", val |-> None, cache |-> cache, depth |-> depth]
    ELSE IF parent # "none"
    THEN LET r == page_get_cached_url(cache, reg, fstring(<<"add_", model, "_", parent>>),
                                      "wagtailadmin_pages:add", <<model, parent>>)
         IN PageMethod([exc |-> r.exc, val |-> r.val, cache |-> r.cache, depth |-> depth])
    ELSE IF has_root
    THEN PageMethod(page_get_add_url(cache, reg, user, model, has_root, "root", depth + 1))
    ELSE [exc |-> "none", val |-> None, cache |-> cache, depth |-> depth]

CallPageGetAddUrl ==
    /\ Idle
    /\ \E status \in RouteStatus, user \in Users, has_root \in BOOLEAN,
          parent \in {"none", "root"} :
        Serve("helpers.page_helpers.PageAdminURLFinder.get_add_url",
              [reg |-> [n \in {"wagtailadmin_pages:add"} |-> status], user |-> user,
               has_root |-> has_root, parent |-> parent],
              page_get_add_url(EmptyCache, [n \in {"wagtailadmin_pages:add"} |-> status],
                               user, "breads.breadpage", has_root, parent, 0))

\* The instance methods of get_all_urls, in the order of url_methods, with
\* the route each resolves.
PageUrlTypes ==
    <<"edit", "delete", "copy", "move", "revisions", "history", "view_draft",
      "workflow_history">>

PageRouteOf(url_type) ==
    IF url_type = "revisions" THEN "wagtailadmin_pages:revisions_index"
    ELSE "wagtailadmin_pages:" \o url_type

PageFinderRoutes == {PageRouteOf(PageUrlTypes[i]) : i \in 1..Len(PageUrlTypes)}

\* Faulty variant of page_required_permission: get_move_url checks nothing.
MoveUnchecked(url_type) ==
    IF url_type = "edit" THEN "change"
    ELSE IF url_type = "delete" THEN "delete"
    ELSE IF url_type = "copy" THEN "add"
    ELSE "none"

\* The action get_<url_type>_url asks the permission policy about, "none"
\* for the methods that ask nothing.
page_required_permission(url_type) ==
    IF url_type \in {"edit", "move"} THEN "change"
    ELSE IF url_type = "delete" THEN "delete"
    ELSE IF url_type = "copy" THEN "add"
    ELSE "none"

\* get_edit_url, get_delete_url, ..., get_workflow_history_url
page_get_instance_url(cache, reg, user, url_type, instance) ==
    IF page_required_permission(url_type) # "none"
       /\ Denied(user, page_required_permission(url_type))
    THEN FRet(None, cache)
    ELSE page_get_cached_url(cache, reg,
                             fstring(<<url_type, "_", instance.class, "_", instance.id>>),
                             PageRouteOf(url_type), <<instance.id>>)

RECURSIVE page_all_urls_from(_, _, _, _, _, _)
page_all_urls_from(urls, cache, reg, user, instance, url_types) ==
    IF url_types = <<>> THEN FRet(urls, cache)
    ELSE LET url == page_get_instance_url(cache, reg, user, Head(url_types), instance)
         IN IF ~Returned(url) THEN url
            ELSE page_all_urls_from(DictPutIf(urls, Head(url_types), url.val), url.cache,
                                    reg, user, instance, Tail(url_types))

page_get_all_urls(cache, reg, user, instance) ==
    page_all_urls_from(<<>>, cache, reg, user, instance, PageUrlTypes)

CallPageGetAllUrls ==
    /\ Idle
    /\ \E reg \in Registries(PageFinderRoutes), user \in Users :
        Serve("helpers.page_helpers.PageAdminURLFinder.get_all_urls",
              [reg |-> reg, user |-> user],
              page_get_all_urls(EmptyCache, reg, user,
                                [id |-> "1", class |-> "breads.breadpage"]))

(***************************************************************************)
(* helpers/page_helpers.py: get_page_urls, and the two page collectors     *)
(* side by side on a host whose page models may derive from one another.   *)
(***************************************************************************)
\* acc: the url list and the finder's cache so far, or the exception that
\* ended the call.
RECURSIVE h_page_instances(_, _, _, _, _, _)
h_page_instances(acc, reg, user, model_name, base_url, instances) ==
    IF ~Returned(acc) \/ instances = <<>> THEN acc
    ELSE LET all_urls == page_get_all_urls(acc.cache, reg, user, Head(instances))
             rows == IF ~Returned(all_urls)
                     THEN [exc |-> all_urls.exc, val |-> <<>>, cache |-> acc.cache]
                     ELSE [exc |-> "none",
                           val |-> AppendItems(acc.val, model_name, base_url,
                                               all_urls.val),
                           cache |-> all_urls.cache]
         IN h_page_instances(PageViewRow(rows, model_name, base_url, Head(instances).url),
                             reg, user, model_name, base_url, Tail(instances))

\* One turn of `for model in page_models`.
h_page_model_urls(acc, reg, user, model, has_root, pages, base_url, max_instances) ==
    IF ~Returned(acc) \/ model = "wagtailcore.page" THEN acc
    ELSE LET model_name == <<PageModelName(model)>>
             add_url == page_get_add_url(acc.cache, reg, user, model, has_root, "root", 0)
             a0 == IF ~has_root THEN acc
                   ELSE IF ~Returned(add_url)
                   THEN [exc |-> add_url.exc, val |-> <<>>, cache |-> acc.cache]
                   ELSE [exc |-> "none",
                         val |-> AppendIf(acc.val, model_name, "add", base_url,
                                          add_url.val),
                         cache |-> add_url.cache]
         IN h_page_instances(a0, reg, user, model_name, base_url,
                             Take(live(model, pages), max_instances))

RECURSIVE h_page_models(_, _, _, _, _, _, _, _)
h_page_models(acc, reg, user, models, has_root, pages, base_url, max_instances) ==
    IF models = <<>> THEN acc
    ELSE h_page_models(
            h_page_model_urls(acc, reg, user, Head(models), has_root, pages, base_url,
                              max_instances),
            reg, user, Tail(models), has_root, pages, base_url, max_instances)

h_get_page_urls(reg, models, has_root, pages, base_url, max_instances, user) ==
    LET r == h_page_models([exc |-> "none", val |-> <<>>, cache |-> EmptyCache],
                           reg, user, models, has_root, pages, base_url, max_instances)
    IN IF Returned(r) THEN Ret(r.val) ELSE Raise(r.exc)

\* get_page_models(): Page first, then the page models of the host, a model
\* before the models derived from it.
InheritingPageModelLists ==
    {<<"wagtailcore.page", "breads.breadpage", "breads.specialbreadpage">>,
     <<"wagtailcore.page", "breads.breadpage", "locations.locationpage">>}

\* The pages of the host, each created as one of the concrete models.
ClassedPageTables(models) ==
    UNION {{[i \in 1..n |-> [id |-> ToString(i), title |-> "title" \o ToString(i),
                             url |-> PageUrl(i), class |-> c[i]]] :
                c \in [1..n -> {models[k] : k \in 2..Len(models)}]} :
           n \in 0..MaxRows}

AllPageRoutes ==
    PageViewsetRoutes \cup PageFinderRoutes \cup {"wagtailadmin_pages:add"}

\* Every route registered, or all but one.
AtMostOneMissing(names) ==
    {[n \in names |-> IF n \in B THEN "NoReverseMatch" ELSE "ok"] :
        B \in {{}} \cup {{b} : b \in names}}

CallBothPageCollectors ==
    /\ Idle
    /\ \E reg \in AtMostOneMissing(AllPageRoutes), models \in InheritingPageModelLists,
          has_root \in BOOLEAN, max_instances \in Caps :
        \E pages \in ClassedPageTables(models) :
            Serve("helpers and viewsets get_page_urls",
                  [reg |-> reg, models |-> models, has_root |-> has_root,
                   rows |-> pages, base_url |-> DEFAULT_BASE_URL,
                   max_instances |-> max_instances],
                  [exc |-> "none", val |-> <<>>,
                   helper |-> h_get_page_urls(reg, models, has_root, pages,
                                              DEFAULT_BASE_URL, max_instances, NoUser),
                   viewset |-> vs_get_page_urls(reg, models, has_root, pages,
                                                DEFAULT_BASE_URL, max_instances)])

(***************************************************************************)
(* Host settings.  A setting is unset, or set to a value;                  *)
(* getattr(settings, NAME, default) reads it.                              *)
(***************************************************************************)
UnsetInt == [set |-> FALSE, v |-> 0]

UnsetStr == [set |-> FALSE, v |-> <<>>]

SetTo(v) == [set |-> TRUE, v |-> v]

getattr(setting, default) == IF setting.set THEN setting.v ELSE default

HostSettings ==
    [WAGTAIL_UNVEIL_MAX_INSTANCES : {UnsetInt} \cup {SetTo(c) : c \in Caps},
     WAGTAIL_UNVEIL_BASE_URL : {UnsetStr} \cup {SetTo(b) : b \in BaseUrls}]

\* getattr(settings, "WAGTAIL_UNVEIL_MAX_INSTANCES", 1)
DEFAULT_MAX_INSTANCES == 1

\* The base URL the host configured for admin links.
ConfiguredBaseUrl(settings) == getattr(settings.WAGTAIL_UNVEIL_BASE_URL, DEFAULT_BASE_URL)

\* A request that reaches a view was dispatched by the URL resolver, so the
\* URL configuration loads: a route can only be missing from it.
(***************************************************************************)
(* helpers/base.py: get_unveil_urls.  The finder classes of the            *)
(* repository: UnveilURLFinder, its subclasses, and the finders that       *)
(* derive from wagtail's ModelAdminURLFinder directly.                     *)
(***************************************************************************)
UnveilURLFinderSubclasses ==
    {"CollectionAdminURLFinder", "DocumentAdminURLFinder", "FormsAdminURLFinder",
     "GenericModelAdminURLFinder", "ImageAdminURLFinder", "UserAdminURLFinder"}

OtherFinderClasses ==
    {"PageAdminURLFinder", "RedirectsAdminURLFinder", "SiteAdminURLFinder",
     "SettingsAdminURLFinder", "LocaleAdminURLFinder", "SnippetAdminURLFinder"}

\* issubclass(finder_class, UnveilURLFinder)
issubclass_UnveilURLFinder(finder_class) ==
    finder_class \in UnveilURLFinderSubclasses \cup {"UnveilURLFinder"}

\* finder.get_urls(): no subclass defines get_urls, so every class runs the
\* method of UnveilURLFinder.
UnveilURLFinder_get_urls(finder_class) == Raise("NotImplementedError")

get_unveil_urls(finder_class) ==
    IF ~issubclass_UnveilURLFinder(finder_class) THEN Raise("ValueError")
    ELSE UnveilURLFinder_get_urls(finder_class)

CallGetUnveilUrls ==
    /\ Idle
    /\ \E finder_class \in UnveilURLFinderSubclasses \cup OtherFinderClasses
                            \cup {"UnveilURLFinder"} :
        Serve("helpers.base.get_unveil_urls", [finder_class |-> finder_class],
              get_unveil_urls(finder_class))

(***************************************************************************)
(* get_generic_models.  A model identifier is the sequence of the parts    *)
(* its dots separate: 'breads.Country' is <<"breads", "Country">>.         *)
(***************************************************************************)
\* The app registry: (app label, lower-case model name) of the installed models.
RegisteredModels == {<<<<"breads">>, "country">>, <<<<"locations">>, "locationpage">>}

ModelIdentifiers ==
    {<<"breads", "Country">>, <<"locations", "LocationPage">>, <<"Country">>,
     <<"breads", "Missing">>, <<"bakerydemo", "breads", "Country">>}

lower(name) ==
    IF name = "Country" THEN "country"
    ELSE IF name = "LocationPage" THEN "locationpage"
    ELSE IF name = "Missing" THEN "missing"
    ELSE name

\* model_path.rsplit('.', 1)
rsplit_dot(model_path) ==
    IF Len(model_path) >= 2
    THEN <<SubSeq(model_path, 1, Len(model_path) - 1), model_path[Len(model_path)]>>
    ELSE <<model_path>>

\* apps.get_model(app_label, model_name)
apps_get_model(app_label, model_name) ==
    IF <<app_label, lower(model_name)>> \in RegisteredModels
    THEN Ret(<<app_label, lower(model_name)>>)
    ELSE Raise("LookupError")

\* app_label, model_name = model_path.rsplit('.', 1); apps.get_model(...)
load_model(model_path) ==
    LET parts == rsplit_dot(model_path)
    IN IF Len(parts) # 2 THEN Raise("ValueError")
       ELSE apps_get_model(parts[1], parts[2])

\* Faulty variant of GenericModelsCaught: only LookupError is caught.
OnlyLookupErrorCaught == {"LookupError"}

\* except (LookupError, ValueError)
GenericModelsCaught == {"LookupError", "ValueError"}

RECURSIVE load_models(_, _)
load_models(models, generic_models_list) ==
    IF generic_models_list = <<>> THEN Ret(models)
    ELSE LET model == load_model(Head(generic_models_list))
         IN IF Returned(model)
            THEN load_models(Append(models, model.val), Tail(generic_models_list))
            ELSE IF model.exc \in GenericModelsCaught
                 THEN load_models(models, Tail(generic_models_list))
            ELSE Raise(model.exc)

\* getattr(settings, 'WAGTAIL_UNVEIL_GENERIC_MODELS', []) in the viewset,
\* getattr(settings, 'WAGTAIL_UNVEIL_GENERIC_MODELS', ['bakerydemo.breads.Country'])
\* in the helper
vs_get_generic_models(setting) == load_models(<<>>, getattr(setting, <<>>))

h_get_generic_models(setting) ==
    load_models(<<>>, getattr(setting, <<<<"bakerydemo", "breads", "Country">>>>))

IdentifierLists ==
    UNION {[1..n -> ModelIdentifiers] : n \in 0..MaxIdentifiers}

GenericModelsSettings == {UnsetStr} \cup {SetTo(l) : l \in IdentifierLists}

CallViewsetGenericModels ==
    /\ Idle
    /\ \E setting \in GenericModelsSettings :
        Serve("viewsets.generic_report.get_generic_models",
              [identifiers |-> getattr(setting, <<>>)],
              vs_get_generic_models(setting))

CallHelperGenericModels ==
    /\ Idle
    /\ \E setting \in GenericModelsSettings :
        Serve("helpers.generic_helpers.get_generic_models",
              [identifiers |-> getattr(setting, <<<<"bakerydemo", "breads", "Country">>>>)],
              h_get_generic_models(setting))

(***************************************************************************)
(* The frontend url of a site, by the finder method of                     *)
(* helpers/site_helpers.py and by the function of viewsets/site_report.py. *)
(***************************************************************************)
Hostnames == {"localhost", "example.com"}

Ports == {80, 443, 8000, 8443}

Sites ==
    [id : {"1"}, hostname : Hostnames, port : Ports,
     site_name : {"bakery", "blog"}, is_default_site : BOOLEAN]

CallSiteFrontendUrl ==
    /\ Idle
    /\ \E site \in Sites :
        Serve("get_frontend_url", [site |-> site],
              [exc |-> "none", val |-> <<>>,
               helper |-> h_site_get_frontend_url(site),
               viewset |-> vs_get_site_frontend_url(site)])

(***************************************************************************)
(* The redirect collectors side by side.  A redirect carries its old_path, *)
(* here its rank among the old paths of the table; the table is listed in  *)
(* the order Redirect.objects.all() returns it, which the database is free *)
(* to choose.                                                              *)
(***************************************************************************)
RedirectTables ==
    UNION {{[i \in 1..n |-> [id |-> ToString(i), old_path |-> p[i]]] :
                p \in Permutations(1..n)} : n \in 0..MaxRows}

\* .order_by('old_path')
order_by_old_path(rows) ==
    LET at(k) == CHOOSE i \in 1..Len(rows) :
                    Cardinality({j \in 1..Len(rows) :
                                    rows[j].old_path < rows[i].old_path}) = k - 1
    IN [k \in 1..Len(rows) |-> rows[at(k)]]

\* for redirect in Redirect.objects.all().order_by('old_path'): redirects.append(...)
get_redirects(table) == order_by_old_path(table)

CallBothRedirectCollectors ==
    /\ Idle
    /\ \E reg \in Registries(RedirectRoutes), table \in RedirectTables,
          max_instances \in Caps :
        Serve("get_redirects_urls and get_redirect_urls",
              [reg |-> reg, rows |-> table, base_url |-> DEFAULT_BASE_URL,
               max_instances |-> max_instances],
              [exc |-> "none", val |-> <<>>,
               helper |-> h_get_redirects_urls(reg, get_redirects(table),
                                               DEFAULT_BASE_URL, max_instances),
               viewset |-> vs_get_redirect_urls(reg, table, DEFAULT_BASE_URL,
                                                max_instances)])

(***************************************************************************)
(* The site collectors side by side, on the same routes, sites and cap.    *)
(***************************************************************************)
CallBothSiteCollectors ==
    /\ Idle
    /\ \E reg \in Registries(SiteRoutes), rows \in SiteTables, max_instances \in Caps :
        Serve("helpers and viewsets get_site_urls",
              [reg |-> reg, rows |-> rows, base_url |-> DEFAULT_BASE_URL,
               max_instances |-> max_instances],
              [exc |-> "none", val |-> <<>>,
               helper |-> h_get_site_urls(reg, rows, DEFAULT_BASE_URL, max_instances),
               viewset |-> vs_get_site_urls(reg, rows, DEFAULT_BASE_URL,
                                            max_instances)])

(***************************************************************************)
(* helpers/user_helpers.py: UserAdminURLFinder (an UnveilURLFinder) and    *)
(* get_user_urls: users, then groups.  No finder method and no loop has a  *)
(* handler of its own, so what _get_cached_url lets through ends the call. *)
(***************************************************************************)
h_get_user_add_url(cache, reg) ==
    base_get_cached_url(cache, reg, "add_user", "wagtailusers_users:add", <<>>)

h_get_user_index_url(cache, reg) ==
    base_get_cached_url(cache, reg, "index_user", "wagtailusers_users:index", <<>>)

h_get_user_edit_url(cache, reg, instance) ==
    base_get_cached_url(cache, reg, fstring(<<"edit_user_", instance.id>>),
                        "wagtailusers_users:edit", <<instance.id>>)

h_get_user_delete_url(cache, reg, instance) ==
    base_get_cached_url(cache, reg, fstring(<<"delete_user_", instance.id>>),
                        "wagtailusers_users:delete", <<instance.id>>)

h_get_group_add_url(cache, reg) ==
    base_get_cached_url(cache, reg, "add_group", "wagtailusers_groups:add", <<>>)

h_get_group_index_url(cache, reg) ==
    base_get_cached_url(cache, reg, "index_group", "wagtailusers_groups:index", <<>>)

h_get_group_edit_url(cache, reg, instance) ==
    base_get_cached_url(cache, reg, fstring(<<"edit_group_", instance.id>>),
                        "wagtailusers_groups:edit", <<instance.id>>)

h_get_group_delete_url(cache, reg, instance) ==
    base_get_cached_url(cache, reg, fstring(<<"delete_group_", instance.id>>),
                        "wagtailusers_groups:delete", <<instance.id>>)

\* Faulty variant of EditThenDelete: the dict is filled delete first.
DeleteThenEdit(e, d) ==
    IF ~Returned(e) THEN e
    ELSE IF ~Returned(d) THEN d
    ELSE FRet(DictPutIf(DictPutIf(<<>>, "delete", d.val), "edit", e.val), d.cache)

\* url_methods = {'edit': ..., 'delete': ...}; for url_type, method in
\* url_methods.items(): url = method(instance); if url: urls[url_type] = url
\* e, d: the outcomes of the edit and of the delete method, in call order.
EditThenDelete(e, d) ==
    IF ~Returned(e) THEN e
    ELSE IF ~Returned(d) THEN d
    ELSE FRet(DictPutIf(DictPutIf(<<>>, "edit", e.val), "delete", d.val), d.cache)

h_get_all_user_urls(cache, reg, instance) ==
    LET e == h_get_user_edit_url(cache, reg, instance)
    IN EditThenDelete(e, h_get_user_delete_url(e.cache, reg, instance))

h_get_all_group_urls(cache, reg, instance) ==
    LET e == h_get_group_edit_url(cache, reg, instance)
    IN EditThenDelete(e, h_get_group_delete_url(e.cache, reg, instance))

\* acc: the url list and the finder's cache so far, or the exception that
\* ended the call.  kind is "user" or "group".
RECURSIVE h_user_instances(_, _, _, _, _, _)
h_user_instances(acc, reg, kind, model_name, base_url, insts) ==
    IF ~Returned(acc) \/ insts = <<>> THEN acc
    ELSE LET all_urls == IF kind = "user"
                         THEN h_get_all_user_urls(acc.cache, reg, Head(insts))
                         ELSE h_get_all_group_urls(acc.cache, reg, Head(insts))
             next == IF ~Returned(all_urls)
                     THEN [exc |-> all_urls.exc, val |-> <<>>, cache |-> acc.cache]
                     ELSE [exc |-> "none",
                           val |-> AppendItems(acc.val, model_name, base_url,
                                               all_urls.val),
                           cache |-> all_urls.cache]
         IN h_user_instances(next, reg, kind, model_name, base_url, Tail(insts))

\* The add and index rows of one model, then the rows of its instances.
h_user_model_urls(acc, reg, kind, model_name, base_url, insts) ==
    IF ~Returned(acc) THEN acc
    ELSE LET add_url == IF kind = "user" THEN h_get_user_add_url(acc.cache, reg)
                        ELSE h_get_group_add_url(acc.cache, reg)
         IN IF ~Returned(add_url)
            THEN [exc |-> add_url.exc, val |-> <<>>, cache |-> acc.cache]
            ELSE LET index_url == IF kind = "user"
                                  THEN h_get_user_index_url(add_url.cache, reg)
                                  ELSE h_get_group_index_url(add_url.cache, reg)
                 IN IF ~Returned(index_url)
                    THEN [exc |-> index_url.exc, val |-> <<>>, cache |-> acc.cache]
                    ELSE h_user_instances(
                            [exc |-> "none",
                             val |-> AppendIf(AppendIf(acc.val, model_name, "add",
                                                       base_url, add_url.val),
                                              model_name, "index", base_url,
                                              index_url.val),
                             cache |-> index_url.cache],
                            reg, kind, model_name, base_url, insts)

h_get_user_urls(reg, users, groups, base_url, max_instances) ==
    LET u == h_user_model_urls([exc |-> "none", val |-> <<>>, cache |-> EmptyCache],
                               reg, "user", <<"auth.User">>, base_url,
                               Take(users, max_instances))
        g == h_user_model_urls(u, reg, "group", <<"auth.Group">>, base_url,
                               Take(groups, max_instances))
    IN IF Returned(g) THEN Ret(g.val) ELSE Raise(g.exc)

CallHelperUserUrls ==
    /\ Idle
    /\ \E reg \in RoutedRegistries(UserRoutes \cup GroupRoutes), users \in Tables,
          groups \in Tables, max_instances \in Caps :
        Serve("helpers.user_helpers.get_user_urls",
              [reg |-> reg, rows |-> users, groups |-> groups,
               base_url |-> DEFAULT_BASE_URL, max_instances |-> max_instances],
              h_get_user_urls(reg, users, groups, DEFAULT_BASE_URL, max_instances))

(***************************************************************************)
(* viewsets/snippet_report.py.  A snippet model is named by                *)
(* "<app_label>_<model_name>", the part of its route names that is its own.*)
(***************************************************************************)
SnippetModels == {"breads_breadtype", "breads_country"}

SnippetModelLists ==
    {<<>>, <<"breads_country">>, <<"breads_breadtype", "breads_country">>}

SnippetTypeActions == <<"add", "list">>

SnippetInstanceActions == <<"edit", "delete", "copy", "history", "usage">>

get_snippet_url_pattern_name(model, action) ==
    "wagtailsnippets_" \o model \o ":" \o action

SnippetRoutes(model) ==
    {get_snippet_url_pattern_name(model, a) :
        a \in {"add", "list", "edit", "delete", "copy", "history", "usage"}}

\* get_snippet_add_url, ..., get_snippet_usage_url: the same body for each
\* action, try: return reverse(url_pattern, args)  except NoReverseMatch: None
vs_get_snippet_url(reg, model, action, args) ==
    CatchNoReverseMatch(reverse(reg, get_snippet_url_pattern_name(model, action), args))

\* The `url = get_snippet_<action>_url(...); if url: urls.append(...)` pairs
\* of `actions`, in order; r is Ret(urls) or the exception that ended them.
RECURSIVE vs_snippet_rows(_, _, _, _, _, _, _)
vs_snippet_rows(r, reg, model, model_name, base_url, args, actions) ==
    IF ~Returned(r) \/ actions = <<>> THEN r
    ELSE LET url == vs_get_snippet_url(reg, model, Head(actions), args)
             next == IF ~Returned(url) THEN [exc |-> url.exc, val |-> r.val]
                     ELSE Ret(AppendIf(r.val, model_name, Head(actions), base_url,
                                       url.val))
         IN vs_snippet_rows(next, reg, model, model_name, base_url, args, Tail(actions))

\* model.objects.all()[:max_instances] if max_instances else model.objects.all()
vs_snippet_queryset(rows, max_instances) ==
    IF max_instances # 0 THEN Take(rows, max_instances) ELSE rows

vs_get_snippet_urls(reg, models, table, base_url, max_instances) ==
    LET model_step(urls, model) ==
            LET type_rows == vs_snippet_rows(Ret(urls), reg, model, <<model>>,
                                             base_url, <<>>, SnippetTypeActions)
                inst_step(us, instance) ==
                    vs_snippet_rows(Ret(us), reg, model, <<model, instance.id>>,
                                    base_url, <<instance.id>>, SnippetInstanceActions)
                loop == ForEach(inst_step, type_rows.val,
                                vs_snippet_queryset(table[model], max_instances))
            IN IF ~Returned(type_rows) THEN type_rows
               ELSE IF Returned(loop) \/ loop.exc \in LoopHandled THEN Ret(loop.val)
               ELSE loop
        all == ForEach(model_step, <<>>, models)
    IN IF Returned(all) THEN all ELSE Raise(all.exc)

CallViewsetSnippetUrls ==
    /\ Idle
    /\ \E models \in SnippetModelLists, max_instances \in Caps :
        \E reg \in AtMostOneMissing(UNION {SnippetRoutes(models[i]) :
                                                 i \in 1..Len(models)}),
           table \in [{models[i] : i \in 1..Len(models)} -> Tables] :
            Serve("viewsets.snippet_report.get_snippet_urls",
                  [reg |-> reg, models |-> models, table |-> table,
                   base_url |-> DEFAULT_BASE_URL, max_instances |-> max_instances],
                  vs_get_snippet_urls(reg, models, table, DEFAULT_BASE_URL,
                                      max_instances))

(***************************************************************************)
(* One finder object, the route registry unchanged, and a sequence of      *)
(* lookups made on it: SettingsAdminURLFinder.get_settings_edit_url, the   *)
(* methods of UserAdminURLFinder, and PageAdminURLFinder's get_add_url,    *)
(* get_edit_url and get_delete_url.  env keeps, for every lookup made, its *)
(* route and arguments and the cache key a finder with an empty cache      *)
(* stores for it, and for the last lookup the answer of such a finder.     *)
(***************************************************************************)
CachedFinders == {"SettingsAdminURLFinder", "UserAdminURLFinder", "PageAdminURLFinder"}

LookupIds == {"1", "12"}

\* The calls a caller can make on a finder: the method, its subject, and the
\* route and arguments the method hands to reverse.
LookupCalls(finder) ==
    IF finder = "SettingsAdminURLFinder"
    THEN {[method |-> "get_settings_edit_url", model |-> name, pk |-> pk,
           route |-> "wagtailsettings:edit",
           args |-> IF pk # "" THEN <<"base", name, pk>> ELSE <<"base", name>>] :
            name \in {"sitesettings", "footersettings"}, pk \in LookupIds \cup {""}}
    ELSE IF finder = "UserAdminURLFinder"
    THEN UNION {{[method |-> "get_" \o kind \o "_" \o action \o "_url", model |-> kind,
                  pk |-> "", route |-> "wagtailusers_" \o kind \o "s:" \o action,
                  args |-> <<>>] : action \in {"add", "index"}}
                \cup {[method |-> "get_" \o kind \o "_" \o action \o "_url",
                       model |-> kind, pk |-> pk,
                       route |-> "wagtailusers_" \o kind \o "s:" \o action,
                       args |-> <<pk>>] : action \in {"edit", "delete"}, pk \in LookupIds} :
                kind \in {"user", "group"}}
    ELSE {[method |-> "get_add_url", model |-> model, pk |-> pk,
           route |-> "wagtailadmin_pages:add", args |-> <<model, pk>>] :
            model \in {"breads.breadpage", "breads.specialbreadpage"}, pk \in LookupIds}
         \cup {[method |-> "get_" \o action \o "_url", model |-> model, pk |-> pk,
                route |-> "wagtailadmin_pages:" \o action, args |-> <<pk>>] :
                action \in {"edit", "delete"},
                model \in {"breads.breadpage", "breads.specialbreadpage"},
                pk \in LookupIds}

LookupRoutes(finder) == {call.route : call \in LookupCalls(finder)}

\* Every route registered, or one route failing in one of the ways reverse fails.
RegistriesWithOneFailure(names) ==
    {[n \in names |-> "ok"]}
        \cup {[n \in names |-> IF n = b THEN e ELSE "ok"] :
                b \in names, e \in ResolutionFailures}

\* finder.<method>(<subject>) on a finder whose _url_cache is `cache`.
finder_lookup(finder, cache, reg, call) ==
    LET instance == [id |-> call.pk, class |-> call.model]
        r == IF finder = "SettingsAdminURLFinder"
             THEN get_settings_edit_url(cache, reg, SiteSettingsModel(call.model), call.pk)
             ELSE IF finder = "PageAdminURLFinder"
             THEN IF call.method = "get_add_url"
                  THEN page_get_add_url(cache, reg, NoUser, call.model, TRUE, call.pk, 0)
                  ELSE IF call.method = "get_edit_url"
                  THEN page_get_instance_url(cache, reg, NoUser, "edit", instance)
                  ELSE page_get_instance_url(cache, reg, NoUser, "delete", instance)
             ELSE IF call.method = "get_user_add_url" THEN h_get_user_add_url(cache, reg)
             ELSE IF call.method = "get_user_index_url" THEN h_get_user_index_url(cache, reg)
             ELSE IF call.method = "get_user_edit_url"
             THEN h_get_user_edit_url(cache, reg, instance)
             ELSE IF call.method = "get_user_delete_url"
             THEN h_get_user_delete_url(cache, reg, instance)
             ELSE IF call.method = "get_group_add_url" THEN h_get_group_add_url(cache, reg)
             ELSE IF call.method = "get_group_index_url"
             THEN h_get_group_index_url(cache, reg)
             ELSE IF call.method = "get_group_edit_url"
             THEN h_get_group_edit_url(cache, reg, instance)
             ELSE h_get_group_delete_url(cache, reg, instance)
    IN [exc |-> r.exc, val |-> r.val, cache |-> r.cache]

NewCachedFinder ==
    /\ Idle
    /\ \E finder \in CachedFinders :
        \E reg \in RegistriesWithOneFailure(LookupRoutes(finder)) :
            Serve("finder lookups",
                  [finder |-> finder, reg |-> reg, lookups |-> 0, used |-> {},
                   call |-> [method |-> "", model |-> "", pk |-> "", route |-> "",
                             args |-> <<>>],
                   direct |-> [exc |-> "none", val |-> None]],
                  FRet(None, EmptyCache))

CachedLookup ==
    /\ op = "finder lookups"
    /\ env.lookups < MaxLookups
    /\ \E call \in LookupCalls(env.finder) :
        LET fresh == finder_lookup(env.finder, EmptyCache, env.reg, call)
        IN Serve(op,
                 [env EXCEPT !.lookups = @ + 1,
                             !.used = @ \cup {[route |-> call.route, args |-> call.args,
                                               keys |-> DOMAIN fresh.cache]},
                             !.call = call,
                             !.direct = [exc |-> fresh.exc, val |-> fresh.val]],
                 finder_lookup(env.finder, out.cache, env.reg, call))

(***************************************************************************)
(* The report index views.  UrlEntry is the namedtuple of one report row;  *)
(* each field is a Python value, None or a string (the id is an int).      *)
(***************************************************************************)
\* Faulty variant of UrlEntry: the url is not passed on.
UrlEntryWithoutUrl(id, model_name, url_type, url) ==
    [id |-> id, model_name |-> Str(model_name), url_type |-> Str(<<url_type>>),
     url |-> None]

UrlEntry(id, model_name, url_type, url) ==
    [id |-> id, model_name |-> Str(model_name), url_type |-> Str(<<url_type>>),
     url |-> Str(url)]

\* Faulty variant of EnumerateEntries: the counter is never incremented.
EnumerateWithoutIncrement(urls) ==
    [i \in 1..Len(urls) |-> UrlEntry(1, urls[i][1], urls[i][2], urls[i][3])]

\* counter = 1; for model_name, url_type, url in urls: append UrlEntry; counter += 1
EnumerateEntries(urls) ==
    [i \in 1..Len(urls) |-> UrlEntry(i, urls[i][1], urls[i][2], urls[i][3])]

UnveilCollectionReportIndexView_get_queryset(settings, reg, rows) ==
    LET max_instances == getattr(settings.WAGTAIL_UNVEIL_MAX_INSTANCES,
                                 DEFAULT_MAX_INSTANCES)
        base_url == DEFAULT_BASE_URL
        collection_urls == vs_get_collection_urls(reg, rows, base_url, max_instances)
    IN IF Returned(collection_urls) THEN Ret(EnumerateEntries(collection_urls.val))
       ELSE collection_urls

UnveilGenericReportIndexView_get_queryset(settings, reg, models, table) ==
    LET max_instances == getattr(settings.WAGTAIL_UNVEIL_MAX_INSTANCES,
                                 DEFAULT_MAX_INSTANCES)
        base_url == getattr(settings.WAGTAIL_UNVEIL_BASE_URL, DEFAULT_BASE_URL)
        generic_urls == vs_get_generic_urls(reg, models, table, base_url, max_instances)
    IN IF Returned(generic_urls) THEN Ret(EnumerateEntries(generic_urls.val))
       ELSE generic_urls

UnveilRedirectReportIndexView_get_queryset(settings, reg, rows) ==
    LET max_instances == getattr(settings.WAGTAIL_UNVEIL_MAX_INSTANCES,
                                 DEFAULT_MAX_INSTANCES)
        base_url == DEFAULT_BASE_URL
        redirect_urls == vs_get_redirect_urls(reg, rows, base_url, max_instances)
    IN IF Returned(redirect_urls) THEN Ret(EnumerateEntries(redirect_urls.val))
       ELSE redirect_urls

\* views/settings_report.py: getattr(settings, 'WAGTAIL_UNVEIL_MAX_INSTANCES', 10)
SETTINGS_DEFAULT_MAX_INSTANCES == 10

UnveilSettingsReportView_get_queryset(settings, reg, models, sites, has) ==
    LET max_instances == getattr(settings.WAGTAIL_UNVEIL_MAX_INSTANCES,
                                 SETTINGS_DEFAULT_MAX_INSTANCES)
        base_url == DEFAULT_BASE_URL
        settings_urls == get_settings_urls(reg, models, sites, has, base_url,
                                           max_instances)
    IN IF Returned(settings_urls) THEN Ret(EnumerateEntries(settings_urls.val))
       ELSE settings_urls

\* One render: env.urls is the list of triples the collector handed to
\* get_queryset during the call.
CallRedirectGetQueryset ==
    /\ Idle
    /\ \E settings \in HostSettings, reg \in RoutedRegistries(RedirectRoutes),
          rows \in Tables :
        Serve("viewsets.redirect_report.UnveilRedirectReportIndexView.get_queryset",
              [settings |-> settings, reg |-> reg, rows |-> rows,
               urls |-> vs_get_redirect_urls(reg, rows, DEFAULT_BASE_URL,
                            getattr(settings.WAGTAIL_UNVEIL_MAX_INSTANCES,
                                    DEFAULT_MAX_INSTANCES)).val],
              UnveilRedirectReportIndexView_get_queryset(settings, reg, rows))

CallSettingsGetQueryset ==
    /\ Idle
    /\ \E settings \in HostSettings, reg \in RoutedRegistries(SettingsRoutes),
          models \in SettingsModelLists, sites \in SettingsSites :
        \E has \in [1..Len(models) -> SUBSET (1..Len(sites))] :
            Serve("views.settings_report.UnveilSettingsReportView.get_queryset",
                  [settings |-> settings, reg |-> reg, models |-> models,
                   sites |-> sites, rows |-> get_settings_instances(models, has),
                   urls |-> get_settings_urls(reg, models, sites, has, DEFAULT_BASE_URL,
                                getattr(settings.WAGTAIL_UNVEIL_MAX_INSTANCES,
                                        SETTINGS_DEFAULT_MAX_INSTANCES)).val],
                  UnveilSettingsReportView_get_queryset(settings, reg, models,
                                                        sites, has))

template_name == "wagtail_unveil/unveil_url_report.html"

\* IndexView.get: render template_name with the queryset as object_list; an
\* exception out of get_queryset is a server error.
IndexViewGet(queryset) ==
    IF Returned(queryset)
    THEN [status |-> 200, template |-> template_name, object_list |-> queryset.val]
    ELSE [status |-> 500, template |-> "", object_list |-> <<>>]

GetCollectionReportIndex ==
    /\ Idle
    /\ \E settings \in HostSettings, reg \in RoutedRegistries(CollectionRoutes),
          rows \in Tables :
        Serve("GET unveil_collection_report:index",
              [settings |-> settings, reg |-> reg, rows |-> rows, is_superuser |-> TRUE],
              Ret(IndexViewGet(
                    UnveilCollectionReportIndexView_get_queryset(settings, reg, rows))))

GetGenericReportIndex ==
    /\ Idle
    /\ \E settings \in HostSettings, models \in GenericModelLists :
        \E reg \in RoutedRegistries(UNION {GenericRoutes(models[i]) : i \in 1..Len(models)}),
           table \in [{models[i] : i \in 1..Len(models)} -> Tables] :
            Serve("GET unveil_generic_report:index",
                  [settings |-> settings, reg |-> reg, models |-> models,
                   table |-> table, is_superuser |-> TRUE],
                  Ret(IndexViewGet(
                        UnveilGenericReportIndexView_get_queryset(settings, reg,
                                                                   models, table))))

(***************************************************************************)
(* The URL configuration the report viewsets contribute: every viewset     *)
(* module instantiates its viewset under url_namespace, and                *)
(* get_urlpatterns names the routes of the namespace.                      *)
(***************************************************************************)
ViewSetNamespaces ==
    {"unveil_collection_report", "unveil_document_report", "unveil_form_report",
     "unveil_generic_report", "unveil_image_report", "unveil_locale_report",
     "unveil_page_report", "unveil_redirect_report", "unveil_search_promotion_report",
     "unveil_settings_report", "unveil_site_report", "unveil_snippet_report",
     "unveil_user_report"}

get_urlpatterns(url_namespace) == {"index", "results"}

\* The reports whose viewsets are not among the viewset modules: each has
\* an index route and a JSON variant.
OtherReportNamespaces ==
    {"unveil_admin_report", "unveil_workflow_report", "unveil_workflow_task_report"}

other_report_urlpatterns == {"index", "json"}

UrlConf ==
    UNION {{ns \o ":" \o n : n \in get_urlpatterns(ns)} : ns \in ViewSetNamespaces}
    \cup {ns \o ":" \o n : ns \in OtherReportNamespaces, n \in other_report_urlpatterns}

\* The namespaces tests.py reverses.
ReportNamespaces == ViewSetNamespaces \cup OtherReportNamespaces

reverse_report(name) ==
    IF name \in UrlConf THEN Ret(Str(<<name>>)) ELSE Raise("NoReverseMatch")

ReverseReportRoute ==
    /\ Idle
    /\ \E ns \in ReportNamespaces, n \in {"index", "results", "json"} :
        Serve("django.urls.reverse", [name |-> ns \o ":" \o n],
              reverse_report(ns \o ":" \o n))

(***************************************************************************)
(* The JSON variant of a report.  The token is configured by the host      *)
(* setting WAGTAIL_UNVEIL_JSON_TOKEN and supplied as the `token` query      *)
(* parameter or as the X-API-Token header; a requester with elevated       *)
(* privileges needs none.  The body carries the rows of the report's       *)
(* get_queryset.                                                           *)
(***************************************************************************)
TokenSettings == {UnsetStr, SetTo(<<"test_token_123">>)}

SuppliedTokens == {None, Str(<<"test_token_123">>), Str(<<"invalid_token">>)}

JsonRequests == [query_token : SuppliedTokens, header_token : SuppliedTokens,
                 is_superuser : BOOLEAN]

\* Faulty variant of TokenMatches: the supplied value is compared with the
\* setting's value even when both are None.
TokenEqualsSetting(configured, supplied) ==
    supplied = (IF configured.set THEN Str(configured.v) ELSE None)

TokenMatches(configured, supplied) ==
    configured.set /\ ~supplied.none /\ supplied.s = configured.v

HasValidToken(configured, request) ==
    \/ TokenMatches(configured, request.query_token)
    \/ TokenMatches(configured, request.header_token)

Forbidden ==
    [status |-> 403, content_type |-> "application/json",
     error |-> "Invalid or missing token", has_results |-> FALSE, results |-> <<>>]

JsonView(configured, request, queryset) ==
    IF ~(request.is_superuser \/ HasValidToken(configured, request)) THEN Forbidden
    ELSE IF ~Returned(queryset)
         THEN [status |-> 500, content_type |-> "text/html", error |-> queryset.exc,
               has_results |-> FALSE, results |-> <<>>]
    ELSE [status |-> 200, content_type |-> "application/json", error |-> "",
          has_results |-> TRUE, results |-> queryset.val]

GetCollectionReportJson ==
    /\ Idle
    /\ \E settings \in HostSettings, configured \in TokenSettings,
          request \in JsonRequests, reg \in RoutedRegistries(CollectionRoutes),
          rows \in Tables :
        Serve("GET unveil_collection_report json",
              [settings |-> settings, WAGTAIL_UNVEIL_JSON_TOKEN |-> configured,
               request |-> request, reg |-> reg, rows |-> rows],
              Ret(JsonView(configured, request,
                    UnveilCollectionReportIndexView_get_queryset(settings, reg, rows))))

GetGenericReportJson ==
    /\ Idle
    /\ \E settings \in HostSettings, configured \in TokenSettings,
          request \in JsonRequests, models \in GenericModelLists :
        \E reg \in RoutedRegistries(UNION {GenericRoutes(models[i]) : i \in 1..Len(models)}),
           table \in [{models[i] : i \in 1..Len(models)} -> Tables] :
            Serve("GET unveil_generic_report json",
                  [settings |-> settings, WAGTAIL_UNVEIL_JSON_TOKEN |-> configured,
                   request |-> request, reg |-> reg, models |-> models, table |-> table],
                  Ret(JsonView(configured, request,
                        UnveilGenericReportIndexView_get_queryset(settings, reg,
                                                                   models, table))))

Init ==
    /\ op = "idle"
    /\ env = <<>>
    /\ out = Ret(<<>>)

\* The request is over; nothing of it is kept.
EndRequest ==
    /\ ~Idle
    /\ op' = "idle"
    /\ env' = <<>>
    /\ out' = Ret(<<>>)

\* The collectors, the resolvers and the report index and JSON views.
Next ==
    \/ CallViewsetRedirectUrls
    \/ CallHelperCollectionUrls
    \/ CallHelperRedirectsUrls
    \/ CallViewsetCollectionUrls
    \/ CallViewsetLocaleUrls
    \/ CallViewsetSiteUrls
    \/ CallViewsetUserUrls
    \/ CallHelperSettingsUrls
    \/ CallBaseGetCachedUrl
    \/ CallBaseSafeUrlGeneration
    \/ CallGenericGetAddUrl
    \/ CallRedirectsGetCachedUrl
    \/ CallViewsetGetRedirectEditUrl
    \/ CallViewsetGenericUrls
    \/ GetCollectionReportIndex
    \/ GetGenericReportIndex
    \/ ReverseReportRoute
    \/ GetCollectionReportJson
    \/ GetGenericReportJson
    \/ EndRequest

Spec == Init /\ [][Next]_vars

\* Report assembly, frontend urls, failing queries, worker renders, the
\* finders' caches and permissions, and model loading.  The operations are
\* independent requests over the same variables; they are explored apart
\* from the ones of Next.
NextRenders ==
    \/ CallRedirectGetQueryset
    \/ CallSettingsGetQueryset
    \/ CallViewsetSiteUrls
    \/ CallHelperSiteUrls
    \/ CallViewsetFormsUrls
    \/ CallViewsetPageUrls
    \/ CallViewsetRedirectUrlsQueryRaises
    \/ CallHelperDocumentUrls
    \/ FirstRender
    \/ NextRender
    \/ NewFinder
    \/ Lookup
    \/ ClearCache
    \/ CallPageGetAddUrl
    \/ CallPageGetAllUrls
    \/ CallGetUnveilUrls
    \/ CallViewsetGenericModels
    \/ CallHelperGenericModels
    \/ CallSiteFrontendUrl
    \/ EndRequest

SpecRenders == Init /\ [][NextRenders]_vars

\* The class-based and the free-function collectors compared, the order and
\* the distinctness of the rows of one result, and the finders' cache keys.
NextResults ==
    \/ CallBothRedirectCollectors
    \/ CallBothSiteCollectors
    \/ CallHelperUserUrls
    \/ CallViewsetSnippetUrls
    \/ CallViewsetGenericUrls
    \/ CallBothPageCollectors
    \/ NewCachedFinder
    \/ CachedLookup
    \/ EndRequest

SpecResults == Init /\ [][NextResults]_vars

(***************************************************************************)
(* Vocabulary of the properties.                                           *)
(***************************************************************************)
CollectorOps ==
    {"viewsets.redirect_report.get_redirect_urls",
     "viewsets.collection_report.get_collection_urls",
     "viewsets.locale_report.get_locale_urls",
     "viewsets.site_report.get_site_urls",
     "viewsets.user_report.get_user_urls",
     "viewsets.generic_report.get_generic_urls",
     "helpers.collection.get_collection_urls",
     "helpers.redirect_helpers.get_redirects_urls",
     "helpers.settings_helpers.get_settings_urls"}

RedirectCollectorOps ==
    {"viewsets.redirect_report.get_redirect_urls",
     "helpers.redirect_helpers.get_redirects_urls"}

\* The collectors of one admin namespace that emit the type-level rows of
\* `actions` and an edit and a delete row per instance.
NamespaceOf(o) ==
    IF o \in RedirectCollectorOps THEN "wagtailredirects"
    ELSE IF o = "viewsets.locale_report.get_locale_urls" THEN "wagtaillocales"
    ELSE "wagtailadmin_collections"

TypeActionsOf(o) ==
    IF o = "viewsets.locale_report.get_locale_urls" THEN {"index"} ELSE {"index", "add"}

EditDeleteCollectorOps ==
    RedirectCollectorOps \cup
    {"viewsets.collection_report.get_collection_urls",
     "viewsets.locale_report.get_locale_urls",
     "helpers.collection.get_collection_urls"}

ResolverOps ==
    {"helpers.base.UnveilURLFinder._get_cached_url",
     "helpers.base.UnveilURLFinder._safe_url_generation",
     "helpers.generic_helpers.GenericModelAdminURLFinder.get_add_url",
     "helpers.redirect_helpers.RedirectsAdminURLFinder._get_cached_url",
     "viewsets.redirect_report.get_redirect_edit_url"}

\* Every route of the registry resolves or is plainly missing.
OnlyUnresolvable(reg) == \A n \in DOMAIN reg : reg[n] \in {"ok", "NoReverseMatch"}

AllResolve(reg) == \A n \in DOMAIN reg : reg[n] = "ok"

InstanceUrlTypes == {"edit", "delete", "copy", "history", "usage", "frontend"}

UrlsOf(urls) == {urls[i][3] : i \in 1..Len(urls)}

\* The first cap rows of the query, counted without the collectors' slicing.
FirstRows(rows, cap) == {rows[k] : k \in {j \in 1..Len(rows) : j <= cap}}

\* The urls of the rows whose routes resolve, for the instances in `insts`.
ResolvableUrls(reg, ns, actions, insts, base_url) ==
    {base_url \o <<ns \o ":" \o a>> : a \in {b \in actions : reg[ns \o ":" \o b] = "ok"}}
    \cup {base_url \o <<ns \o ":" \o a, inst.id>> :
            a \in {b \in {"edit", "delete"} : reg[ns \o ":" \o b] = "ok"}, inst \in insts}

\* The instance a row is about: its type and its primary key.  The key is
\* the last argument of an admin url; a frontend row carries it in the name.
InstanceKey(row) ==
    IF row[2] = "frontend" THEN <<row[1][1], row[1][2]>>
    ELSE <<row[1][1], row[3][Len(row[3])]>>

InstanceRows(urls) == {i \in 1..Len(urls) : urls[i][2] \in InstanceUrlTypes}

InstanceGroups(urls, type) ==
    {InstanceKey(urls[i]) : i \in {j \in InstanceRows(urls) : urls[j][1][1] = type}}

TypesOf(urls) == {urls[i][1][1] : i \in 1..Len(urls)}

\* The call found no instance of its types in the database.
NoInstances ==
    IF op = "viewsets.user_report.get_user_urls"
    THEN env.rows = <<>> /\ env.groups = <<>>
    ELSE IF op = "viewsets.generic_report.get_generic_urls"
    THEN \A m \in DOMAIN env.table : env.table[m] = <<>>
    ELSE env.rows = <<>>

(***************************************************************************)
(* C1.  In every per-type collector a route that does not resolve yields   *)
(* no row for its action, every row whose route resolves is returned, and  *)
(* the collector does not raise.                                           *)
(***************************************************************************)
C1_PartialSuccess ==
    (op \in CollectorOps /\ OnlyUnresolvable(env.reg)) =>
        /\ Returned(out)
        /\ op \in EditDeleteCollectorOps =>
            UrlsOf(out.val) =
                ResolvableUrls(env.reg, NamespaceOf(op), TypeActionsOf(op),
                               FirstRows(env.rows, env.max_instances), env.base_url)

(***************************************************************************)
(* C2.  A route resolver returns None for every kind of resolution failure *)
(* and lets no exception reach its caller.                                 *)
(***************************************************************************)
C2_ResolverReturnsNone ==
    (op \in ResolverOps /\ env.reg[env.name] # "ok") =>
        (Returned(out) /\ out.val = None)

(***************************************************************************)
(* C3.  For every collector, every configured maximum and every database   *)
(* content, the number of distinct existing instances of a type that get   *)
(* instance rows never exceeds the configured maximum.                     *)
(***************************************************************************)
C3_InstanceGroupsWithinCap ==
    (op \in CollectorOps /\ Returned(out) /\ ~NoInstances) =>
        \A type \in TypesOf(out.val) :
            Cardinality(InstanceGroups(out.val, type)) <= env.max_instances

(***************************************************************************)
(* C4.  With zero existing instances a collector returns the type-level    *)
(* index/add rows whose routes resolve and no instance-level row.  Stated  *)
(* for the hosts in which every route resolves.                            *)
(***************************************************************************)
C4_ZeroInstances ==
    (op \in CollectorOps /\ AllResolve(env.reg) /\ NoInstances) =>
        /\ Returned(out)
        /\ InstanceRows(out.val) = {}
        /\ op \in EditDeleteCollectorOps =>
            UrlsOf(out.val) =
                ResolvableUrls(env.reg, NamespaceOf(op), TypeActionsOf(op), {},
                               env.base_url)

(***************************************************************************)
(* C5.  The redirect collector, with its four routes resolvable, n         *)
(* redirects and a cap m with 0 < m <= n, returns one index row, one add   *)
(* row, then an edit row and a delete row for each of the first m          *)
(* redirects in query order, and nothing else.                             *)
(***************************************************************************)
RedirectScenario ==
    /\ op \in RedirectCollectorOps
    /\ \A n \in RedirectRoutes : env.reg[n] = "ok"
    /\ 0 < env.max_instances
    /\ env.max_instances <= Len(env.rows)

C5_RedirectCap ==
    RedirectScenario =>
        /\ Returned(out)
        /\ Len(out.val) = 2 + 2 * env.max_instances
        /\ out.val[1][2] = "index"
        /\ out.val[1][3] = env.base_url \o <<"wagtailredirects:index">>
        /\ out.val[2][2] = "add"
        /\ out.val[2][3] = env.base_url \o <<"wagtailredirects:add">>
        /\ \A k \in 1..env.max_instances :
            /\ out.val[2 * k + 1][2] = "edit"
            /\ out.val[2 * k + 1][3] =
                    env.base_url \o <<"wagtailredirects:edit", env.rows[k].id>>
            /\ out.val[2 * k + 2][2] = "delete"
            /\ out.val[2 * k + 2][3] =
                    env.base_url \o <<"wagtailredirects:delete", env.rows[k].id>>

\* The stated case: three redirects and a cap of two give six rows.
C5_ThreeRedirectsCapTwo ==
    /\ RedirectScenario
    /\ op = "viewsets.redirect_report.get_redirect_urls"
    /\ Len(env.rows) = 3
    /\ env.max_instances = 2
    /\ Returned(out)
    /\ Len(out.val) = 6

(***************************************************************************)
(* C6.  Every row emitted by a collector or a report view has a non-empty  *)
(* url, and the url of every admin-route row begins with the base URL      *)
(* configured in the host's settings.                                      *)
(***************************************************************************)
IndexOps == {"GET unveil_collection_report:index", "GET unveil_generic_report:index"}

JsonOps == {"GET unveil_collection_report json", "GET unveil_generic_report json"}

C6_UrlsBeginWithConfiguredBase ==
    /\ (op \in CollectorOps /\ Returned(out)) =>
            \A i \in 1..Len(out.val) :
                /\ out.val[i][3] # <<>>
                /\ out.val[i][2] # "frontend" => StartsWith(out.val[i][3], env.base_url)
    /\ op \in IndexOps =>
            \A i \in 1..Len(out.val.object_list) :
                LET entry == out.val.object_list[i]
                IN /\ Truthy(entry.url)
                   /\ entry.url_type # Str(<<"frontend">>) =>
                        StartsWith(entry.url.s, ConfiguredBaseUrl(env.settings))

(***************************************************************************)
(* C7.  A JSON request whose token is absent or differs from the           *)
(* configured token, from a requester without elevated privileges, gets a  *)
(* 403 response with the message "Invalid or missing token" and no rows.   *)
(***************************************************************************)
\* The supplied value is the token the host configured.
IsConfiguredToken(supplied) ==
    /\ env.WAGTAIL_UNVEIL_JSON_TOKEN.set
    /\ supplied = Str(env.WAGTAIL_UNVEIL_JSON_TOKEN.v)

SuppliesConfiguredToken ==
    \/ IsConfiguredToken(env.request.query_token)
    \/ IsConfiguredToken(env.request.header_token)

C7_RejectedWithoutToken ==
    (op \in JsonOps /\ ~env.request.is_superuser /\ ~SuppliesConfiguredToken) =>
        /\ out.val.status = 403
        /\ out.val.error = "Invalid or missing token"
        /\ ~out.val.has_results
        /\ out.val.results = <<>>

\* An unprivileged requester sends a wrong token to a report that has rows.
C7_WrongTokenSent ==
    /\ op = "GET unveil_collection_report json"
    /\ ~env.request.is_superuser
    /\ env.WAGTAIL_UNVEIL_JSON_TOKEN.set
    /\ env.request.query_token = Str(<<"invalid_token">>)
    /\ env.request.header_token = None
    /\ AllResolve(env.reg)
    /\ env.rows # <<>>
    /\ out.val.status = 403

(***************************************************************************)
(* C8.  A JSON request that supplies the configured token, as the `token`  *)
(* query parameter or as the X-API-Token header, is answered with status   *)
(* 200, content type application/json and a body whose `results` member    *)
(* is a list.                                                              *)
(***************************************************************************)
C8_AcceptedWithToken ==
    (op \in JsonOps /\ SuppliesConfiguredToken) =>
        /\ out.val.status = 200
        /\ out.val.content_type = "application/json"
        /\ out.val.has_results
        /\ DOMAIN out.val.results = 1..Len(out.val.results)

\* An unprivileged requester sends the token in the header only, to a host
\* in which a collection route is missing.
C8_HeaderTokenSent ==
    /\ op = "GET unveil_collection_report json"
    /\ ~env.request.is_superuser
    /\ env.request.query_token = None
    /\ IsConfiguredToken(env.request.header_token)
    /\ ~AllResolve(env.reg)
    /\ out.val.status = 200
    /\ Len(out.val.results) > 0

(***************************************************************************)
(* C9.  Every entry of the `results` list of a JSON response has the four  *)
(* fields id, model_name, url_type and url, and none of them is null.      *)
(***************************************************************************)
C9_EntriesComplete ==
    (op \in JsonOps /\ out.val.has_results) =>
        \A i \in 1..Len(out.val.results) :
            LET entry == out.val.results[i]
            IN /\ DOMAIN entry = {"id", "model_name", "url_type", "url"}
               /\ entry.id \in Nat
               /\ ~entry.model_name.none
               /\ ~entry.url_type.none
               /\ ~entry.url.none

\* A response that lists the rows of a generic model with two instances.
C9_SeveralEntries ==
    /\ op = "GET unveil_generic_report json"
    /\ out.val.has_results
    /\ Len(out.val.results) >= 12

(***************************************************************************)
(* C10.  For each of the sixteen report namespaces the routes              *)
(* <namespace>:index and <namespace>:json are registered, and the index    *)
(* answers a logged-in superuser with status 200 using the template        *)
(* wagtail_unveil/unveil_url_report.html.                                  *)
(***************************************************************************)
C10_RoutesRegistered ==
    /\ (/\ op = "django.urls.reverse"
        /\ env.name \in {ns \o ":" \o n : ns \in ReportNamespaces, n \in {"index", "json"}})
            => Returned(out)
    /\ (op \in IndexOps /\ env.is_superuser) =>
            /\ out.val.status = 200
            /\ out.val.template = "wagtail_unveil/unveil_url_report.html"

(***************************************************************************)
(* C11.  In one render get_queryset wraps the collector's n triples into n *)
(* records whose ids are exactly 1..n in collector order, record i         *)
(* carrying the i-th triple unchanged: no row is dropped, duplicated or    *)
(* reordered, and ids are unique within the render.                        *)
(***************************************************************************)
GetQuerysetOps ==
    {"viewsets.redirect_report.UnveilRedirectReportIndexView.get_queryset",
     "views.settings_report.UnveilSettingsReportView.get_queryset"}

C11_SequentialIds ==
    (op \in GetQuerysetOps /\ Returned(out)) =>
        /\ Len(out.val) = Len(env.urls)
        /\ \A i \in 1..Len(out.val) :
            /\ out.val[i].id = i
            /\ out.val[i].model_name = Str(env.urls[i][1])
            /\ out.val[i].url_type = Str(<<env.urls[i][2]>>)
            /\ out.val[i].url = Str(env.urls[i][3])
        /\ \A i, j \in 1..Len(out.val) : out.val[i].id = out.val[j].id => i = j

\* A redirect report render of six rows.
C11_SixRecords ==
    /\ op = "viewsets.redirect_report.UnveilRedirectReportIndexView.get_queryset"
    /\ Returned(out)
    /\ Len(env.urls) = 6
    /\ out.val[6].id = 6

(***************************************************************************)
(* C12.  Every url a collector emits is the base URL followed by the       *)
(* resolved path, except a frontend url that is already absolute, which is *)
(* emitted unchanged, without the base URL: the frontend rows of the site, *)
(* page and form collectors all follow this rule.                          *)
(***************************************************************************)
SiteCollectorOps ==
    {"helpers.site_helpers.get_site_urls", "viewsets.site_report.get_site_urls"}

PageSourceOps ==
    {"viewsets.page_report.get_page_urls", "viewsets.form_report.get_forms_urls"}

FrontendTypes == {"frontend", "view", "frontend_form"}

IsAbsolute(url) == url # <<>> /\ Head(url) \in {"http", "https"}

\* What the rule makes of the frontend url `url` of an instance.
EmittedFrontend(base_url, url) ==
    IF IsAbsolute(url) THEN url
    ELSE IF Head(url) = "/" THEN base_url \o url
    ELSE base_url \o <<"/">> \o url

FollowsBaseRule(row) ==
    IF row[2] \notin FrontendTypes
    THEN StartsWith(row[3], env.base_url) /\ Len(row[3]) > Len(env.base_url)
    ELSE IF op \in SiteCollectorOps
    THEN \E k \in 1..Len(env.rows) :
            row[3] = EmittedFrontend(env.base_url, vs_get_site_frontend_url(env.rows[k]).s)
    ELSE \E k \in 1..Len(env.rows) :
            /\ row[1][3] = env.rows[k].id
            /\ Truthy(env.rows[k].url)
            /\ row[3] = EmittedFrontend(env.base_url, env.rows[k].url.s)

C12_AbsoluteFrontendUnchanged ==
    (op \in SiteCollectorOps \cup PageSourceOps /\ Returned(out)) =>
        \A i \in 1..Len(out.val) : FollowsBaseRule(out.val[i])

\* The form collector, called with a base URL that has no trailing slash,
\* has emitted the frontend row of a form page whose url is absolute.
C12_AbsoluteFormPage ==
    /\ op = "viewsets.form_report.get_forms_urls"
    /\ Returned(out)
    /\ env.base_url \in BaseUrls
    /\ \E i \in 1..Len(out.val), k \in 1..Len(env.rows) :
        /\ out.val[i][2] = "frontend_form"
        /\ out.val[i][1][3] = env.rows[k].id
        /\ IsAbsolute(env.rows[k].url.s)
        /\ out.val[i][3] = env.base_url \o env.rows[k].url.s

(***************************************************************************)
(* C13.  When the query for a type's instances raises an unexpected query  *)
(* or attribute error, the collector catches and logs it, abandons the     *)
(* instance loop and still returns: the list it returns holds the          *)
(* type-level add and index rows collected before the error.               *)
(***************************************************************************)
QueryRaised ==
    \/ op = "viewsets.redirect_report.get_redirect_urls, query raises"
    \/ op = "helpers.document.get_document_urls" /\ ~Returned(env.query)

QueryError ==
    IF op = "helpers.document.get_document_urls" THEN env.query.exc ELSE env.query_error

\* The add and index rows of namespace ns, in either order.
TypeLevelRows(urls, ns, base_url) ==
    /\ Len(urls) = 2
    /\ {urls[1][2], urls[2][2]} = {"add", "index"}
    /\ \A i \in 1..2 : urls[i][3] = base_url \o <<ns \o ":" \o urls[i][2]>>

C13_QueryErrorNotFatal ==
    (QueryRaised /\ AllResolve(env.reg)) =>
        /\ Returned(out)
        /\ out.logged
        /\ TypeLevelRows(out.val,
                         IF op = "helpers.document.get_document_urls"
                         THEN "wagtaildocs" ELSE "wagtailredirects",
                         env.base_url)

\* The redirect query has raised a database error with every route
\* resolvable, and the collector has raised it in turn.
C13_DatabaseErrorRaised ==
    /\ op = "viewsets.redirect_report.get_redirect_urls, query raises"
    /\ env.query_error = "DatabaseError"
    /\ AllResolve(env.reg)
    /\ out.exc = "DatabaseError"

(***************************************************************************)
(* C14.  No state survives a render.  In any sequence of renders of one    *)
(* process, the rows of a render are those the route registry, the table   *)
(* and the cap at that render determine: a row for every route that        *)
(* resolves now, whatever the earlier renders found, so a route that       *)
(* failed at the previous render and resolves at this one is reported.     *)
(***************************************************************************)
C14_RenderDependsOnPresentOnly ==
    (op = "worker renders helpers.redirect_helpers.get_redirects_urls" /\ Returned(out)) =>
        UrlsOf(out.val) =
            ResolvableUrls(env.reg, "wagtailredirects", {"index", "add"},
                           FirstRows(env.rows, env.max_instances), env.base_url)

\* A second render at which the edit route, unresolvable at the first
\* render, resolves, and which reports the edit row of redirect 1.
C14_RecoveredRouteReported ==
    /\ op = "worker renders helpers.redirect_helpers.get_redirects_urls"
    /\ env.renders = 2
    /\ "wagtailredirects:edit" \in env.recovered
    /\ Returned(out)
    /\ \E i \in 1..Len(out.val) :
        out.val[i][3] = env.base_url \o <<"wagtailredirects:edit", "1">>

(***************************************************************************)
(* C15.  Within one finder and between two clear_cache calls, reverse is   *)
(* called at most once per cache key: a repeated lookup of a key returns   *)
(* what the key's first lookup returned, and a first resolution that       *)
(* failed is remembered as None, not tried again.                          *)
(***************************************************************************)
C15_ResolvedOncePerKey ==
    op = "finder._get_cached_url" =>
        /\ \A pk \in LookupPks : env.resolved[pk] <= 1
        /\ env.repeated =>
            /\ Returned(out)
            /\ out.val = IF env.first[env.pk].failed THEN None ELSE env.first[env.pk].val

\* A key whose first lookup on an UnveilURLFinder met an unresolvable route
\* has been looked up again, and reverse has been called again.
C15_UnresolvableRouteRetried ==
    /\ op = "finder._get_cached_url"
    /\ env.class = "UnveilURLFinder"
    /\ env.repeated
    /\ env.first[env.pk].exc = "NoReverseMatch"
    /\ env.resolved[env.pk] = 2

(***************************************************************************)
(* C16.  A render is a bounded sequence of steps.  The page collector      *)
(* returns or raises after at most, for each concrete page model, one      *)
(* resolution of the type-level add route and seven resolutions for each   *)
(* instance it enumerates; PageAdminURLFinder.get_add_url called without a *)
(* parent calls itself at most once.                                       *)
(***************************************************************************)
TypeLevelPageRoutes == 1

InstanceLevelPageRoutes == 7

ConcreteModels(models) ==
    Cardinality({i \in 1..Len(models) : models[i] # "wagtailcore.page"})

Enumerated(rows, cap) == IF cap = 0 THEN Len(rows) ELSE Min(cap, Len(rows))

C16_BoundedResolutions ==
    /\ op = "viewsets.page_report.get_page_urls" =>
        out.calls <= ConcreteModels(env.models)
                        * (TypeLevelPageRoutes
                           + Enumerated(env.rows, env.max_instances) * InstanceLevelPageRoutes)
    /\ op = "helpers.page_helpers.PageAdminURLFinder.get_add_url" =>
        out.depth <= 1

\* A render of one model that enumerated three pages and resolved 22
\* routes: the add route and seven routes for each page.
C16_FullRender ==
    /\ op = "viewsets.page_report.get_page_urls"
    /\ Returned(out)
    /\ Enumerated(env.rows, env.max_instances) = 3
    /\ out.calls = 22

(***************************************************************************)
(* C17.  With a user supplied to PageAdminURLFinder, get_all_urls holds an *)
(* 'edit' or a 'move' url only if the user has the 'change' permission, a  *)
(* 'delete' url only with 'delete' and a 'copy' url only with 'add'; with  *)
(* no user nothing is checked and the url of every route that resolves is  *)
(* returned.                                                               *)
(***************************************************************************)
ReturnedTypes == {out.val[i][1] : i \in 1..Len(out.val)}

ResolvableTypes ==
    {PageUrlTypes[i] : i \in {j \in 1..Len(PageUrlTypes) :
                                env.reg[PageRouteOf(PageUrlTypes[j])] = "ok"}}

C17_PermissionGatedUrls ==
    (op = "helpers.page_helpers.PageAdminURLFinder.get_all_urls" /\ Returned(out)) =>
        /\ env.user.supplied =>
            /\ ("edit" \in ReturnedTypes \/ "move" \in ReturnedTypes)
                    => "change" \in env.user.perms
            /\ "delete" \in ReturnedTypes => "delete" \in env.user.perms
            /\ "copy" \in ReturnedTypes => "add" \in env.user.perms
        /\ ~env.user.supplied => ReturnedTypes = ResolvableTypes

\* A user who may only delete, every route resolvable: the delete url is
\* returned, the edit, move and copy urls are not.
C17_DeleteOnlyUser ==
    /\ op = "helpers.page_helpers.PageAdminURLFinder.get_all_urls"
    /\ Returned(out)
    /\ env.user = [supplied |-> TRUE, perms |-> {"delete"}]
    /\ AllResolve(env.reg)
    /\ "delete" \in ReturnedTypes
    /\ ReturnedTypes \cap {"edit", "move", "copy"} = {}

(***************************************************************************)
(* C18.  get_unveil_urls raises ValueError for a finder_class that is not  *)
(* a subclass of UnveilURLFinder, and for every UnveilURLFinder subclass   *)
(* of the repository it returns the finder's list of (url, description)    *)
(* pairs.                                                                  *)
(***************************************************************************)
C18_UnveilUrlsOfSubclass ==
    op = "helpers.base.get_unveil_urls" =>
        /\ env.finder_class \in OtherFinderClasses => out.exc = "ValueError"
        /\ env.finder_class \in UnveilURLFinderSubclasses =>
            /\ Returned(out)
            /\ \A i \in 1..Len(out.val) : Len(out.val[i]) = 2

\* get_unveil_urls has been called with CollectionAdminURLFinder and has
\* raised NotImplementedError.
C18_CollectionFinderRaises ==
    /\ op = "helpers.base.get_unveil_urls"
    /\ env.finder_class = "CollectionAdminURLFinder"
    /\ out.exc = "NotImplementedError"

(***************************************************************************)
(* C19.  get_generic_models returns, in configured order, exactly the      *)
(* models of the configured identifiers that name a registered model; an   *)
(* identifier without a dot, or one that names no registered model, is     *)
(* skipped: nothing is raised and no other identifier's model is lost.     *)
(***************************************************************************)
GenericModelsOps ==
    {"viewsets.generic_report.get_generic_models",
     "helpers.generic_helpers.get_generic_models"}

\* The registered model an identifier names, if any: its last part is the
\* model's name in any case, the parts before it the app label.
NamesModel(identifier, model) ==
    /\ Len(identifier) >= 2
    /\ model[1] = SubSeq(identifier, 1, Len(identifier) - 1)
    /\ model[2] = lower(identifier[Len(identifier)])

Resolving(identifiers) ==
    {i \in 1..Len(identifiers) : \E m \in RegisteredModels : NamesModel(identifiers[i], m)}

C19_ResolvingModelsInOrder ==
    op \in GenericModelsOps =>
        /\ Returned(out)
        /\ Len(out.val) = Cardinality(Resolving(env.identifiers))
        /\ \A k \in 1..Len(out.val) :
            \E i \in Resolving(env.identifiers) :
                /\ NamesModel(env.identifiers[i], out.val[k])
                /\ Cardinality({j \in Resolving(env.identifiers) : j < i}) = k - 1

\* Three identifiers configured: a malformed one, then two that resolve;
\* the two models are returned in that order.
C19_MalformedSkipped ==
    /\ op = "viewsets.generic_report.get_generic_models"
    /\ env.identifiers = <<<<"Country">>, <<"locations", "LocationPage">>,
                           <<"breads", "Country">>>>
    /\ out = Ret(<<<<<<"locations">>, "locationpage">>, <<<<"breads">>, "country">>>>)

(***************************************************************************)
(* C20.  The frontend url of a site is determined by its hostname and      *)
(* port: the scheme is https exactly when the port is 443, http otherwise; *)
(* the ':port' part is left out exactly when the port is 80 or 443; the    *)
(* url ends with '/'; the finder method and the free function return the   *)
(* same string.                                                            *)
(***************************************************************************)
FrontendOf(hostname, port) ==
    <<IF port = 443 THEN "https" ELSE "http", "://", hostname>>
        \o (IF port \in {80, 443} THEN <<>> ELSE <<":", ToString(port)>>)
        \o <<"/">>

C20_FrontendUrlFromHostAndPort ==
    op = "get_frontend_url" =>
        /\ out.helper = out.viewset
        /\ out.helper = Str(FrontendOf(env.site.hostname, env.site.port))

\* A site on port 8443: both versions give http://example.com:8443/.
C20_Port8443 ==
    /\ op = "get_frontend_url"
    /\ env.site.hostname = "example.com"
    /\ env.site.port = 8443
    /\ out.viewset = Str(<<"http", "://", "example.com", ":", "8443", "/">>)
    /\ out.helper = out.viewset

(***************************************************************************)
(* C21.  For the same route registry, the same redirects and the same cap, *)
(* whenever the query returns the redirects in old_path order, the         *)
(* class-based collector get_redirects_urls and the free-function          *)
(* collector get_redirect_urls return the same sequence of (url_type, url) *)
(* pairs.                                                                  *)
(***************************************************************************)
Pairs(urls) == [i \in 1..Len(urls) |-> <<urls[i][2], urls[i][3]>>]

InOldPathOrder(rows) ==
    \A i, j \in 1..Len(rows) : i < j => rows[i].old_path < rows[j].old_path

BothRedirectCollectors == op = "get_redirects_urls and get_redirect_urls"

C21_SameRedirectPairs ==
    (BothRedirectCollectors /\ InOldPathOrder(env.rows)) =>
        /\ Returned(out.helper)
        /\ Returned(out.viewset)
        /\ Pairs(out.helper.val) = Pairs(out.viewset.val)

\* Three redirects in old_path order, a cap of two, the delete route
\* missing: both collectors return index, add and two edit rows.
C21_OrderedRedirectsAgree ==
    /\ BothRedirectCollectors
    /\ InOldPathOrder(env.rows)
    /\ Len(env.rows) = 3
    /\ env.max_instances = 2
    /\ env.reg["wagtailredirects:delete"] = "NoReverseMatch"
    /\ Returned(out.helper)
    /\ Returned(out.viewset)
    /\ Len(out.helper.val) = 4
    /\ Pairs(out.helper.val) = Pairs(out.viewset.val)

(***************************************************************************)
(* C22.  For the same route registry, the same sites and every cap m >= 0, *)
(* m = 0 included, the class-based get_site_urls and the free-function     *)
(* get_site_urls emit the same set of (url_type, url) pairs.               *)
(***************************************************************************)
PairSet(urls) == {<<urls[i][2], urls[i][3]>> : i \in 1..Len(urls)}

BothSiteCollectors == op = "helpers and viewsets get_site_urls"

C22_SameSitePairs ==
    BothSiteCollectors =>
        /\ Returned(out.helper)
        /\ Returned(out.viewset)
        /\ PairSet(out.helper.val) = PairSet(out.viewset.val)

\* Three sites, a cap of two, the delete route missing: both collectors
\* emit add, index and the edit and frontend rows of the first two sites.
C22_CappedSitesAgree ==
    /\ BothSiteCollectors
    /\ Len(env.rows) = 3
    /\ env.max_instances = 2
    /\ env.reg["wagtailsites:delete"] = "NoReverseMatch"
    /\ Returned(out.helper)
    /\ Returned(out.viewset)
    /\ Cardinality(PairSet(out.helper.val)) = 6
    /\ PairSet(out.helper.val) = PairSet(out.viewset.val)
    /\ Pairs(out.helper.val) # Pairs(out.viewset.val)

(***************************************************************************)
(* C23.  When at least one settings instance exists, get_settings_urls     *)
(* emits at most max_instances rows in total across all settings models:   *)
(* the cap is global, not per model.  Each row is an 'edit' row of one of  *)
(* the first max_instances instances in enumeration order, and the rows    *)
(* follow that order.                                                      *)
(***************************************************************************)
SettingsCollector == op = "helpers.settings_helpers.get_settings_urls"

SettingsInstanceName(inst) ==
    <<inst.model.label, "_Site_", inst.site_id, "_Instance_", inst.id>>

C23_GlobalSettingsCap ==
    (SettingsCollector /\ env.rows # <<>> /\ Returned(out)) =>
        LET first == Take(env.rows, env.max_instances)
        IN /\ Len(out.val) <= env.max_instances
           /\ \E at \in [1..Len(out.val) -> 1..Len(first)] :
                /\ \A i, j \in 1..Len(out.val) : i < j => at[i] < at[j]
                /\ \A i \in 1..Len(out.val) :
                    /\ out.val[i][1] = SettingsInstanceName(first[at[i]])
                    /\ out.val[i][2] = "edit"

\* Two settings models with two instances each and a cap of three: the rows
\* are the two instances of the first model and one of the second.
C23_CapSpansModels ==
    /\ SettingsCollector
    /\ Returned(out)
    /\ Len(env.rows) = 4
    /\ env.max_instances = 3
    /\ Len(out.val) = 3
    /\ out.val[2][1] = SettingsInstanceName(env.rows[2])
    /\ out.val[3][1] = SettingsInstanceName(env.rows[3])
    /\ env.rows[3].model # env.rows[2].model

(***************************************************************************)
(* C24.  In a collector's result, for each model all type-level rows       *)
(* (index, add, list) of the model precede every instance row of the       *)
(* model, the rows of one instance are contiguous, and within one instance *)
(* the edit row precedes the delete row.  A type-level row carries the     *)
(* bare name of its model; an instance row is told from the others by its  *)
(* name, when the collector tags it with the instance, and by the          *)
(* arguments of its url.                                                   *)
(***************************************************************************)
OrderedCollectorOps ==
    {"viewsets.snippet_report.get_snippet_urls",
     "helpers.user_helpers.get_user_urls",
     "viewsets.generic_report.get_generic_urls"}

\* The rows a collector returned; of the two page collectors, the viewset's.
OrderedRows ==
    IF op \in OrderedCollectorOps /\ Returned(out) THEN out.val
    ELSE IF op = "helpers and viewsets get_page_urls" /\ Returned(out.viewset)
    THEN out.viewset.val
    ELSE <<>>

BareModelNames ==
    {<<"auth.User">>, <<"auth.Group">>}
        \cup {<<"breads.", m>> : m \in GenericModels}
        \cup {<<m>> : m \in SnippetModels}
        \cup {<<PageModelName(m)>> :
                    m \in {"wagtailcore.page", "breads.breadpage",
                           "breads.specialbreadpage", "locations.locationpage"}}

RowModel(row) == CHOOSE b \in BareModelNames : StartsWith(row[1], b)

TypeLevelRow(row) == row[1] \in BareModelNames /\ row[2] \in {"index", "add", "list"}

\* The url of an admin row is the base url, the route name and the arguments.
RowInstance(row) ==
    IF row[1] \in BareModelNames THEN <<row[1], SubSeq(row[3], 3, Len(row[3]))>>
    ELSE <<row[1], <<>>>>

SameInstance(r, s) ==
    ~TypeLevelRow(r) /\ ~TypeLevelRow(s) /\ RowInstance(r) = RowInstance(s)

BothPageCollectors == op = "helpers and viewsets get_page_urls"

DistinctPairs(urls) == Cardinality(PairSet(urls)) = Len(urls)

\* Some model of the list derives from another model of the list, Page aside.
DerivedModelListed(models) ==
    \E i, j \in 2..Len(models) : i # j /\ issubclass_page(models[i], models[j])

C25_DistinctPairs ==
    BothPageCollectors =>
        /\ Returned(out.helper) => DistinctPairs(out.helper.val)
        /\ Returned(out.viewset) => DistinctPairs(out.viewset.val)

\* Page models none of which derives from another, three pages among them,
\* every route registered: neither collector repeats a pair.
C25_UnrelatedModelsDistinct ==
    /\ BothPageCollectors
    /\ ~DerivedModelListed(env.models)
    /\ \A n \in DOMAIN env.reg : env.reg[n] = "ok"
    /\ env.has_root
    /\ env.max_instances = 3
    /\ Len(env.rows) = 3
    /\ {env.rows[i].class : i \in 1..3} = {"breads.breadpage", "locations.locationpage"}
    /\ Returned(out.helper) /\ Len(out.helper.val) > 6
    /\ Returned(out.viewset) /\ Len(out.viewset.val) > 6
    /\ DistinctPairs(out.helper.val)
    /\ DistinctPairs(out.viewset.val)

(***************************************************************************)
(* C26: within one finder, two lookups for different (route name,          *)
(* arguments) pairs never use the same cache key, so with an unchanged     *)
(* route registry the cached finder answers every lookup of every sequence *)
(* of lookups as direct resolution does: the url reverse returns when the  *)
(* route resolves, and in every case the answer of a finder whose cache is *)
(* empty.                                                                  *)
(***************************************************************************)
FinderLookups == op = "finder lookups"

C26_CachedAsDirect ==
    FinderLookups =>
        /\ \A u, v \in env.used :
            <<u.route, u.args>> # <<v.route, v.args>> => u.keys \cap v.keys = {}
        /\ env.lookups > 0 =>
            /\ out.exc = env.direct.exc
            /\ out.val = env.direct.val
            /\ env.reg[env.call.route] = "ok" =>
                reverse(env.reg, env.call.route, env.call.args) = Ret(out.val)

\* Three lookups for two different pairs, one of them on a route that fails
\* and is memoized as None, the last answered with a url from the cache.
C26_RepeatedLookupFromCache ==
    /\ FinderLookups
    /\ env.lookups = 3
    /\ Cardinality(env.used) = 2
    /\ Cardinality(DOMAIN out.cache) = 2
    /\ \E k \in DOMAIN out.cache : out.cache[k] = None
    /\ Returned(out) /\ Truthy(out.val)

====
